---- MODULE Spec2Model ----
(***************************************************************************)
(* Model of the local trust-graph engine of nostr-wot-sdk: LocalWoT        *)
(* (sync / findShortestPath / query entry points), RelayPool merge,        *)
(* extractFollows and the storage adapter, translated from the TypeScript  *)
(* sources.                                                                *)
(***************************************************************************)
EXTENDS Integers, Sequences, FiniteSets, TLC

(***************************************************************************)
(* Bounds of the model                                                     *)
(***************************************************************************)
\* largest maxHops value a query is issued with
MaxHopsBound == 3
\* largest depth a sync is started with
MaxDepth == 3
\* batch size of the sync (chunk(toFetch, 100) in the source, scaled down so
\* that rounds with several batches occur)
BatchSize == 2
\* number of completed syncs after which no further sync is started
MaxClock == 2
\* number of connect() calls issued on one connection at most
MaxCalls == 3
\* number of fetchContactLists() calls issued on one connection at most
MaxFetches == 2
\* number of kind-3 events one connection receives for its subscriptions
MaxEvents == 1
\* number of events one relay returns to a merge at most
MaxResults == 2
\* the largest finite number
MaxFinite == 8
\* largest number of operations a failing storage adapter serves first
MaxServes == 2

(***************************************************************************)
(* Identities                                                              *)
(***************************************************************************)
\* canonical (lowercase) identities; each letter stands for one 64-hex string
Ids == {"r", "a", "b", "x", "t"}
\* the same identities written with uppercase hex digits
UpperIds == {"A"}
\* strings that are not 64 hex characters, and the empty string
Malformed == {"zz", ""}
RawPubkeys == Ids \cup UpperIds \cup Malformed

\* null / undefined; every nullable value of the model is a record, so that
\* it can be compared with Null
Null == [null |-> TRUE]

\* /^[0-9a-f]{64}$/i
isValidPubkey(pubkey) == pubkey \in Ids \cup UpperIds

\* pubkey.toLowerCase()
normalizePubkey(pubkey) == IF pubkey = "A" THEN "a" ELSE pubkey

\* LocalWoTOptions.myPubkey after the constructor normalised it
myPubkey == "r"

(***************************************************************************)
(* Sequence helpers (Array.includes, Array.filter)                         *)
(***************************************************************************)
Includes(seq, e) == \E i \in 1..Len(seq) : seq[i] = e

Range(seq) == {seq[i] : i \in 1..Len(seq)}

RECURSIVE SubSeqByMask(_, _)
\* the subsequence of seq at the positions in mask
SubSeqByMask(seq, mask) ==
  IF seq = <<>> THEN <<>>
  ELSE LET rest == SubSeqByMask(Tail(seq), {i - 1 : i \in mask \ {1}})
       IN IF 1 \in mask THEN <<Head(seq)>> \o rest ELSE rest

SubSeqs(seq) == {SubSeqByMask(seq, m) : m \in SUBSET (1..Len(seq))}

(***************************************************************************)
(* Storage adapter (MemoryStorage) and the keys of LocalWoT                *)
(***************************************************************************)
FollowsKey(pubkey) == <<"follows:", pubkey>>
SYNC_DEPTH == <<"sync:depth">>
SYNC_TIME == <<"sync:time">>
\* not a key of the data: the number of further operations the adapter
\* serves before every operation fails with StorageError (Absent: no limit)
Serves == <<"serves">>
StorageKeys ==
  {FollowsKey(p) : p \in RawPubkeys} \cup {SYNC_DEPTH, SYNC_TIME, Serves}

\* JSON.stringify of a string array / String(n): the stored text
JSONstringify(value) == [text |-> value]
JSONparse(data) == data.text

\* Map.get of a missing key (?? null)
Absent == [absent |-> TRUE]

\* new Map(): the storage after construction
EmptyStorage == [k \in StorageKeys |-> Absent]

storageSet(st, key, value) == [st EXCEPT ![key] = value]

\* an adapter that never fails, and one that fails after n operations
Unlimited == Absent
Failing(st, serves) == [st EXCEPT ![Serves] = serves]
Healthy(st) == [st EXCEPT ![Serves] = Unlimited]
\* the adapter fails the operation it is asked for after "done" operations
Down(st, done) == st[Serves] # Unlimited /\ done >= st[Serves].num
\* the adapter after it has served one operation
Served(st) ==
  IF st[Serves] = Unlimited THEN st ELSE [st EXCEPT ![Serves] = [num |-> @.num - 1]]

\* LocalWoT.getFollows: null when the key is absent, else the parsed list
\* (the text "[]" of an empty list is a non-empty string, so it is not null)
getFollows(st, pubkey) ==
  LET data == st[FollowsKey(pubkey)]
  IN IF data = Absent THEN Null ELSE [list |-> JSONparse(data)]

\* setFollows that appends to the list already stored
setFollows_append(st, pubkey, follows) ==
  storageSet(st, FollowsKey(pubkey),
             JSONstringify((IF st[FollowsKey(pubkey)] = Absent THEN <<>>
                            ELSE JSONparse(st[FollowsKey(pubkey)])) \o follows))

\* LocalWoT.setFollows
setFollows(st, pubkey, follows) ==
  storageSet(st, FollowsKey(pubkey), JSONstringify(follows))

\* LocalWoT.doesFollow
doesFollow(st, from, to) ==
  LET follows == getFollows(st, from)
  IN IF follows = Null THEN FALSE ELSE Includes(follows.list, to)

(***************************************************************************)
(* LocalWoT.findShortestPath                                               *)
(***************************************************************************)
\* the body of "for (const follow of follows)" for one follow
VisitFollow(acc, pubkey, follow, to, distance, currentLayer) ==
  IF follow = to
  THEN [acc EXCEPT
          !.foundInLayer = TRUE,
          !.pathCount = @ + 1,
          !.bridges =
            IF distance = 1 THEN Append(@, pubkey)
            ELSE IF ~Includes(@, pubkey)
                 \* currentLayer.find(pk => <Promise>): the callback returns
                 \* a Promise, which is truthy, so find yields the first
                 \* element of currentLayer
                 THEN LET firstHop == Head(currentLayer)
                      IN IF firstHop # "" /\ ~Includes(@, firstHop)
                         THEN Append(@, firstHop) ELSE @
                 ELSE @,
          \* the callback calls getFollows once, for the first element, and
          \* nothing awaits or catches the promise it returns
          !.reads = IF distance # 1 /\ ~Includes(acc.bridges, pubkey)
                    THEN Append(@, Head(currentLayer)) ELSE @]
  ELSE IF follow \notin acc.visited
       THEN [acc EXCEPT !.visited = @ \cup {follow},
                        !.nextLayer = Append(@, follow)]
       ELSE acc

RECURSIVE VisitFollows(_, _, _, _, _, _)
VisitFollows(acc, pubkey, follows, to, distance, currentLayer) ==
  IF follows = <<>> THEN acc
  ELSE VisitFollows(VisitFollow(acc, pubkey, Head(follows), to, distance,
                                currentLayer),
                    pubkey, Tail(follows), to, distance, currentLayer)

RECURSIVE VisitLayer(_, _, _, _, _, _)
\* "for (const pubkey of currentLayer)"; rest is the part still to visit
VisitLayer(st, acc, rest, to, distance, currentLayer) ==
  IF rest = <<>> \/ acc.failed THEN acc
  ELSE IF Down(st, Len(acc.reads))
       THEN [acc EXCEPT !.failed = TRUE, !.reads = Append(@, Head(rest))]
  ELSE LET pubkey == Head(rest)
           follows == getFollows(st, pubkey)
           read == [acc EXCEPT !.reads = Append(@, pubkey)]
           acc2 == IF follows = Null THEN read
                   ELSE VisitFollows(read, pubkey, follows.list, to, distance,
                                     currentLayer)
       IN VisitLayer(st, acc2, Tail(rest), to, distance, currentLayer)

\* what the search loop ends with: the storage error of a read, nothing
\* found, or the layer the target was found in; readOf lists the identities
\* whose follow list was read with storage.get, in order, reads counts them,
\* and rounds counts the iterations of the while loop
SearchFailed(reads) ==
  [throw |-> "StorageError", reads |-> Len(reads), readOf |-> reads]
NotFound(reads, distance) ==
  [none |-> TRUE, reads |-> Len(reads), readOf |-> reads, rounds |-> distance]
Found(acc, distance) ==
  [distance |-> distance, paths |-> acc.pathCount, bridges |-> acc.bridges,
   reads |-> Len(acc.reads), readOf |-> acc.reads, rounds |-> distance]

RECURSIVE BfsLoop_inclusiveBound(_, _, _, _, _, _, _, _, _)
\* BfsLoop with the loop condition "distance <= maxHops"
BfsLoop_inclusiveBound(st, to, maxHops, visited, currentLayer, distance, bridges, pathCount, reads) ==
  IF ~(Len(currentLayer) > 0 /\ distance <= maxHops) THEN NotFound(reads, distance)
  ELSE LET dist1 == distance + 1
           acc0 == [visited |-> visited, nextLayer |-> <<>>,
                    foundInLayer |-> FALSE, pathCount |-> pathCount,
                    bridges |-> bridges, reads |-> reads, failed |-> FALSE]
           acc == VisitLayer(st, acc0, currentLayer, to, dist1, currentLayer)
       IN IF acc.failed THEN SearchFailed(acc.reads)
          ELSE IF acc.foundInLayer THEN Found(acc, dist1)
          ELSE BfsLoop_inclusiveBound(st, to, maxHops, acc.visited,
                                      acc.nextLayer, dist1, acc.bridges,
                                      acc.pathCount, acc.reads)

RECURSIVE BfsLoop(_, _, _, _, _, _, _, _, _)
\* "while (currentLayer.length > 0 && distance < maxHops)"
BfsLoop(st, to, maxHops, visited, currentLayer, distance, bridges, pathCount, reads) ==
  IF ~(Len(currentLayer) > 0 /\ distance < maxHops) THEN NotFound(reads, distance)
  ELSE LET dist1 == distance + 1
           acc0 == [visited |-> visited, nextLayer |-> <<>>,
                    foundInLayer |-> FALSE, pathCount |-> pathCount,
                    bridges |-> bridges, reads |-> reads, failed |-> FALSE]
           acc == VisitLayer(st, acc0, currentLayer, to, dist1, currentLayer)
       IN IF acc.failed THEN SearchFailed(acc.reads)
          ELSE IF acc.foundInLayer THEN Found(acc, dist1)
          ELSE BfsLoop(st, to, maxHops, acc.visited, acc.nextLayer, dist1,
                       acc.bridges, acc.pathCount, acc.reads)

\* the search of findShortestPath with its count of reads
search(st, from, to, maxHops) ==
  IF from = to
  THEN [distance |-> 0, paths |-> 1, bridges |-> <<>>, reads |-> 0,
        readOf |-> <<>>, rounds |-> 0]
  ELSE BfsLoop(st, to, maxHops, {from}, <<from>>, 0, <<>>, 0, <<>>)

\* what findShortestPath settles with
Outcome(found) ==
  IF "throw" \in DOMAIN found THEN [throw |-> found.throw]
  ELSE IF "none" \in DOMAIN found THEN Null
  ELSE [distance |-> found.distance, paths |-> found.paths,
        bridges |-> found.bridges]

\* findShortestPath without the "from === to" case
findShortestPath_noSelfCase(st, from, to, maxHops) ==
  Outcome(BfsLoop(st, to, maxHops, {from}, <<from>>, 0, <<>>, 0, <<>>))

findShortestPath(st, from, to, maxHops) ==
  Outcome(search(st, from, to, maxHops))

(***************************************************************************)
(* Trust scoring (utils.ts).  A number is Num(n), an infinity or NaN.      *)
(* Finite numbers are exact: base scores count sixtieths, weights and      *)
(* bonuses hundredths, scores units of 1 / ScoreDen.  A result beyond      *)
(* twice MaxFinite is an infinity, as an IEEE double beyond MAX_VALUE is.   *)
(***************************************************************************)
ScoreDen == 60 * 100 * 100

Num(n) == [num |-> n]
Inf(sign) == [inf |-> sign]
NaN == [nan |-> TRUE]

IsNum(x) == "num" \in DOMAIN x
IsInf(x) == "inf" \in DOMAIN x
IsNaN(x) == "nan" \in DOMAIN x

\* sign of a number that is not NaN
Sign(x) ==
  IF IsInf(x) THEN x.inf
  ELSE IF x.num > 0 THEN 1 ELSE IF x.num < 0 THEN -1 ELSE 0

\* the number an exact result becomes; scale is the unit of n.  Numbers
\* are spaced widely at the top: a result below twice MaxFinite rounds to
\* MaxFinite (an addend that is small against it is absorbed), and from
\* twice MaxFinite on the result is an infinity
Rounded(n, scale) ==
  IF n >= 2 * MaxFinite * scale THEN Inf(1)
  ELSE IF n <= -(2 * MaxFinite * scale) THEN Inf(-1)
  ELSE IF n > MaxFinite * scale THEN Num(MaxFinite * scale)
  ELSE IF n < -(MaxFinite * scale) THEN Num(-(MaxFinite * scale))
  ELSE Num(n)

\* x + y for numbers of the same unit
Plus(x, y, scale) ==
  IF IsNaN(x) \/ IsNaN(y) THEN NaN
  ELSE IF IsInf(x) /\ IsInf(y) THEN IF x.inf = y.inf THEN x ELSE NaN
  ELSE IF IsInf(x) THEN x
  ELSE IF IsInf(y) THEN y
  ELSE Rounded(x.num + y.num, scale)

\* x * y; scale is the unit of the product
Times(x, y, scale) ==
  IF IsNaN(x) \/ IsNaN(y) THEN NaN
  ELSE IF IsInf(x) \/ IsInf(y)
  THEN IF Sign(x) * Sign(y) = 0 THEN NaN ELSE Inf(Sign(x) * Sign(y))
  ELSE Rounded(x.num * y.num, scale)

\* x <= y for numbers that are not NaN
Leq(x, y) ==
  IF IsInf(x) THEN x.inf = -1 \/ (IsInf(y) /\ y.inf = 1)
  ELSE IF IsInf(y) THEN y.inf = 1
  ELSE x.num <= y.num

\* DEFAULT_SCORING, which mergeScoringConfig(undefined) returns
DEFAULT_SCORING ==
  [distanceWeights |-> [h \in 1..4 |-> CASE h = 1 -> 100 [] h = 2 -> 50
                                         [] h = 3 -> 25 [] h = 4 -> 10],
   mutualBonus |-> 50, pathBonus |-> 10, maxPathBonus |-> 50]

\* Math.max over the keys; Math.max() of no argument is -Infinity
MaxOf(S) == IF S = {} THEN Inf(-1) ELSE Num(CHOOSE m \in S : \A e \in S : e <= m)
\* Math.min and Math.max: NaN when an argument is NaN
MinNum(m, n) == IF IsNaN(m) \/ IsNaN(n) THEN NaN ELSE IF Leq(m, n) THEN m ELSE n
MaxNum(m, n) == IF IsNaN(m) \/ IsNaN(n) THEN NaN ELSE IF Leq(n, m) THEN m ELSE n

\* the weight 0.1 used when neither lookup finds one
LastResortWeight == 100 \div 10

\* "distanceWeights[hops] ?? distanceWeights[maxDefinedHop] ?? 0.1"
distanceWeight(hops, distanceWeights) ==
  LET maxDefinedHop == MaxOf(DOMAIN distanceWeights)
  IN IF hops \in DOMAIN distanceWeights THEN distanceWeights[hops]
     ELSE IF IsNum(maxDefinedHop) THEN distanceWeights[maxDefinedHop.num]
     ELSE LastResortWeight

calculateTrustScore(result, scoring) ==
  LET hops == result.hops
      \* 1 / (hops + 1), in sixtieths
      baseScore == Num(60 \div (hops + 1))
      weight == Num(distanceWeight(hops, scoring.distanceWeights))
      mutualPart == IF result.mutual = TRUE
                    THEN Plus(Num(0), Num(scoring.mutualBonus), 100)
                    ELSE Num(0)
      pathCountBonus ==
        MinNum(Times(Num(scoring.pathBonus), Num(result.paths - 1), 100),
               Num(scoring.maxPathBonus))
      bonuses == IF result.paths > 1
                 THEN Plus(mutualPart, pathCountBonus, 100)
                 ELSE mutualPart
      score == Times(Times(baseScore, weight, 60 * 100),
                     Plus(Num(100), bonuses, 100), ScoreDen)
  IN MinNum(Num(ScoreDen), MaxNum(Num(0), score))

(***************************************************************************)
(* Query entry points of LocalWoT.  Every outcome is a record: a thrown    *)
(* error, null, or a value.                                                *)
(***************************************************************************)
Throw(err) == [throw |-> err]
Bool(b) == [bool |-> b]

\* LocalWoT.validatePubkey: TRUE when it throws ValidationError
validatePubkeyThrows(pubkey) == pubkey = "" \/ ~isValidPubkey(pubkey)

\* LocalWoT.getDetails
getDetails(st, target, maxHops) ==
  IF validatePubkeyThrows(target) THEN Throw("ValidationError")
  ELSE LET normalizedTarget == normalizePubkey(target)
           result == findShortestPath(st, myPubkey, normalizedTarget, maxHops)
           reads == search(st, myPubkey, normalizedTarget, maxHops).reads
       IN IF result = Null \/ "throw" \in DOMAIN result THEN result
          ELSE IF Down(st, reads) THEN Throw("StorageError")
          ELSE [hops |-> result.distance, paths |-> result.paths,
                bridges |-> result.bridges,
                mutual |-> doesFollow(st, normalizedTarget, myPubkey)]

\* the calls of storage.get that getDetails issues
getDetailsReads(st, target, maxHops) ==
  IF validatePubkeyThrows(target) THEN 0
  ELSE LET found == search(st, myPubkey, normalizePubkey(target), maxHops)
       IN IF "distance" \in DOMAIN found THEN found.reads + 1 ELSE found.reads

\* the calls of storage.get that getDistance and getDistanceBetween issue
getDistanceReads(st, from, to, maxHops) ==
  IF validatePubkeyThrows(from) \/ validatePubkeyThrows(to) THEN 0
  ELSE search(st, normalizePubkey(from), normalizePubkey(to), maxHops).reads

\* LocalWoT.getDistance
getDistance(st, target, maxHops) ==
  IF validatePubkeyThrows(target) THEN Throw("ValidationError")
  ELSE LET result == findShortestPath(st, myPubkey, normalizePubkey(target),
                                      maxHops)
       IN IF result = Null \/ "throw" \in DOMAIN result THEN result
          ELSE Num(result.distance)

\* LocalWoT.getDistanceBetween
getDistanceBetween(st, from, to, maxHops) ==
  IF validatePubkeyThrows(from) \/ validatePubkeyThrows(to)
  THEN Throw("ValidationError")
  ELSE LET result == findShortestPath(st, normalizePubkey(from),
                                      normalizePubkey(to), maxHops)
       IN IF result = Null \/ "throw" \in DOMAIN result THEN result
          ELSE Num(result.distance)

\* isInMyWoT with "distance === null || distance <= maxHops"
isInMyWoT_nullPasses(st, target, maxHops) ==
  LET distance == getDistance(st, target, maxHops)
  IN IF "throw" \in DOMAIN distance THEN distance
     ELSE Bool(distance = Null \/ distance.num <= maxHops)

\* LocalWoT.isInMyWoT
isInMyWoT(st, target, maxHops) ==
  LET distance == getDistance(st, target, maxHops)
  IN IF "throw" \in DOMAIN distance THEN distance
     ELSE Bool(distance # Null /\ distance.num <= maxHops)

\* LocalWoT.getTrustScore
getTrustScore(st, target, maxHops) ==
  LET details == getDetails(st, target, maxHops)
  IN IF "throw" \in DOMAIN details THEN details
     ELSE IF details = Null THEN Num(0)
     ELSE calculateTrustScore(details, DEFAULT_SCORING)

\* the adapter after n of its operations were used
Spent(st, n) ==
  IF st[Serves] = Unlimited THEN st
  ELSE [st EXCEPT ![Serves] = [num |-> IF @.num > n THEN @.num - n ELSE 0]]

\* Map.set on the results of batchCheck
ResultsSet(results, key, value) ==
  [k \in DOMAIN results \cup {key} |-> IF k = key THEN value ELSE results[k]]

RECURSIVE batchCheckLoop(_, _, _, _, _)
\* "for (const target of targets)": the outcome with the reads issued
batchCheckLoop(st, targets, maxHops, results, reads) ==
  IF targets = <<>> THEN [out |-> [map |-> results], reads |-> reads]
  ELSE IF validatePubkeyThrows(Head(targets))
  THEN [out |-> Throw("ValidationError"), reads |-> reads]
  ELSE LET normalizedTarget == normalizePubkey(Head(targets))
           details == getDetails(st, normalizedTarget, maxHops)
           issued == getDetailsReads(st, normalizedTarget, maxHops)
           entry == [pubkey |-> normalizedTarget,
                     distance |-> IF details = Null THEN Null
                                  ELSE Num(details.hops),
                     score |-> IF details = Null THEN Num(0)
                               ELSE calculateTrustScore(details, DEFAULT_SCORING),
                     inWoT |-> details # Null /\ details.hops <= maxHops]
       IN IF "throw" \in DOMAIN details
          THEN [out |-> details, reads |-> reads + issued]
          ELSE batchCheckLoop(Spent(st, issued), Tail(targets), maxHops,
                              ResultsSet(results, normalizedTarget, entry),
                              reads + issued)

\* LocalWoT.batchCheck, with the calls of storage.get it issued
batchCheck(st, targets, maxHops) ==
  IF Len(targets) = 0 THEN [out |-> Throw("ValidationError"), reads |-> 0]
  ELSE batchCheckLoop(st, targets, maxHops, <<>>, 0)

\* parseInt(text, 10) of a text that String(n) produced
parseInt(data) == JSONparse(data)

\* LocalWoT.getSyncStatus, with the calls of storage.get it issued
getSyncStatus(st) ==
  IF Down(st, 0) THEN [out |-> Throw("StorageError"), reads |-> 1]
  ELSE IF Down(st, 1) THEN [out |-> Throw("StorageError"), reads |-> 2]
  ELSE [out |-> IF st[SYNC_DEPTH] = Absent \/ st[SYNC_TIME] = Absent THEN Null
                ELSE [depth |-> parseInt(st[SYNC_DEPTH]),
                      time |-> parseInt(st[SYNC_TIME])],
        reads |-> 2]

(***************************************************************************)
(* Relay side (relay.ts): contact-list events, extractFollows and the      *)
(* merge of RelayPool.fetchContactLists                                    *)
(***************************************************************************)
\* relayUrls of the LocalWoT options
Relays == {1, 2}

\* a kind-3 event; tags is a sequence of <<name, value>> pairs
Event(pubkey, created_at, tags) ==
  [pubkey |-> pubkey, created_at |-> created_at, kind |-> 3, tags |-> tags]

NoEvent == [none |-> TRUE]

RECURSIVE extractFollows_tags(_)
extractFollows_tags(tags) ==
  IF tags = <<>> THEN <<>>
  ELSE LET tag == Head(tags)
           rest == extractFollows_tags(Tail(tags))
       IN IF tag[1] = "p" /\ tag[2] # "" /\ isValidPubkey(tag[2])
          THEN <<normalizePubkey(tag[2])>> \o rest
          ELSE rest

\* extractFollows(event)
extractFollows(event) == extractFollows_tags(event.tags)

\* index of the entry of the insertion-ordered Map results with this key, or 0
MapIndex(results, pubkey) ==
  IF \E i \in 1..Len(results) : results[i].pubkey = pubkey
  THEN CHOOSE i \in 1..Len(results) : results[i].pubkey = pubkey
  ELSE 0

\* MergeEvent that sets the entry whatever its created_at
MergeEvent_lastWins(results, event) ==
  LET i == MapIndex(results, event.pubkey)
  IN IF i = 0 THEN Append(results, event) ELSE [results EXCEPT ![i] = event]

\* results.get / results.set for one event of the merge loop
MergeEvent(results, event) ==
  LET i == MapIndex(results, event.pubkey)
  IN IF i = 0 THEN Append(results, event)
     ELSE IF event.created_at > results[i].created_at
          THEN [results EXCEPT ![i] = event]
          ELSE results

RECURSIVE MergeEvents(_, _)
MergeEvents(results, events) ==
  IF events = <<>> THEN results
  ELSE MergeEvents(MergeEvent(results, Head(events)), Tail(events))

RECURSIVE MergeAll(_, _)
\* "for (const events of allEvents)": allEvents in the order of this.relays
MergeAll(results, allEvents) ==
  IF allEvents = <<>> THEN results
  ELSE MergeAll(MergeEvents(results, Head(allEvents)), Tail(allEvents))

MapHas(results, pubkey) == MapIndex(results, pubkey) # 0

\* chunk(array, size)
RECURSIVE chunk(_, _)
chunk(array, size) ==
  IF array = <<>> THEN <<>>
  ELSE IF Len(array) <= size THEN <<array>>
  ELSE <<SubSeq(array, 1, size)>> \o chunk(SubSeq(array, size + 1, Len(array)), size)

(***************************************************************************)
(* RelayConnection (relay.ts): one record per connection.  The fields ws,  *)
(* connectPromise, subscriptions and subIdCounter are those of the class;  *)
(* sockets are the WebSocket objects it has created (ws and connectPromise *)
(* are indices into it, 0 standing for null: the promise of a connect()    *)
(* lives with the socket that its executor created), calls are the         *)
(* connect() and fetchContactLists() calls issued on the connection, sent  *)
(* are the frames the running task has handed to WebSocket.send.           *)
(***************************************************************************)
NewRelayConnection ==
  [ws |-> 0, connectPromise |-> 0, subscriptions |-> <<>>, subIdCounter |-> 0,
   sockets |-> <<>>, calls |-> <<>>, sent |-> <<>>]

\* "new WebSocket(url)" returned: the socket is connecting, the promise of
\* the executor that created it is pending, no event has been dispatched
NewSocket ==
  [readyState |-> "CONNECTING", promise |-> "pending",
   errorFired |-> FALSE, closeFired |-> FALSE]

\* "new WebSocket(url)" threw: there is no socket, the catch block has
\* rejected the promise
ThrownSocket ==
  [readyState |-> "CLOSED", promise |-> "rejected",
   errorFired |-> TRUE, closeFired |-> TRUE]

\* "this.ws?.readyState === WebSocket.OPEN"
wsIsOpen(c) == c.ws # 0 /\ c.sockets[c.ws].readyState = "OPEN"

\* resolve() / reject() of a promise: settling a settled promise does nothing
Settle(promise, outcome) == IF promise = "pending" THEN outcome ELSE promise

\* the state of the promise a connect() call returned; 0 is the promise of
\* the early "return" (already fulfilled)
PromiseState(c, p) == IF p = 0 THEN "fulfilled" ELSE c.sockets[p].promise

\* RelayConnection.connect(): the connection afterwards and the promise
\* returned; throws tells whether "new WebSocket" throws
connect(c, throws) ==
  IF wsIsOpen(c) THEN [c |-> c, p |-> 0]
  ELSE IF c.connectPromise # 0 THEN [c |-> c, p |-> c.connectPromise]
  ELSE LET k == Len(c.sockets) + 1
       IN IF throws
          THEN [c |-> [c EXCEPT !.sockets = Append(@, ThrownSocket),
                                !.connectPromise = k],
                p |-> k]
          ELSE [c |-> [c EXCEPT !.sockets = Append(@, NewSocket),
                                !.ws = k,
                                !.connectPromise = k],
                p |-> k]

\* ws.onopen of socket s
onopen(c, s) ==
  [c EXCEPT !.connectPromise = 0,
            !.sockets[s].promise = Settle(@, "fulfilled")]

\* ws.onerror of socket s
onerror(c, s) ==
  [c EXCEPT !.connectPromise = 0,
            !.sockets[s].promise = Settle(@, "rejected")]

\* ws.onclose of socket s
onclose(c, s) == [c EXCEPT !.ws = 0, !.connectPromise = 0]

\* RelayConnection.send
send(c, message) ==
  IF wsIsOpen(c)
  THEN [c EXCEPT !.sent = Append(@, [message |-> message, socket |-> c.ws])]
  ELSE c

\* index of the entry of this.subscriptions with this id, or 0
SubIndex(c, subId) ==
  IF \E i \in 1..Len(c.subscriptions) : c.subscriptions[i].subId = subId
  THEN CHOOSE i \in 1..Len(c.subscriptions) : c.subscriptions[i].subId = subId
  ELSE 0

\* a sequence without its i-th element
RemoveAt(seq, i) ==
  [j \in 1..(Len(seq) - 1) |-> IF j < i THEN seq[j] ELSE seq[j + 1]]

\* sub.deferred.resolve(sub.events): the fetchContactLists call awaiting the
\* deferred of subId returns the events
deferredResolve(c, subId, events) ==
  [c EXCEPT !.calls =
     [i \in 1..Len(c.calls) |->
        IF c.calls[i].op = "fetch" /\ c.calls[i].pc = "sub"
           /\ c.calls[i].subId = subId
        THEN [c.calls[i] EXCEPT !.pc = "resolved", !.result = events]
        ELSE c.calls[i]]]

\* ending a subscription with an empty array instead of its buffer
endSubscription_dropsEvents(c, subId) ==
  LET i == SubIndex(c, subId)
      resolved == deferredResolve(c, subId, <<>>)
      deleted == [resolved EXCEPT !.subscriptions = RemoveAt(@, i)]
  IN send(deleted, [type |-> "CLOSE", subId |-> subId])

\* the three statements that end a subscription on EOSE and on timeout
endSubscription(c, subId) ==
  LET i == SubIndex(c, subId)
      resolved == deferredResolve(c, subId, c.subscriptions[i].events)
      deleted == [resolved EXCEPT !.subscriptions = RemoveAt(@, i)]
  IN send(deleted, [type |-> "CLOSE", subId |-> subId])

\* handleMessage without the test of the event's kind
handleMessage_anyKind(c, message) ==
  LET i == SubIndex(c, message.subId)
  IN IF message.type = "EVENT"
     THEN IF i # 0
          THEN [c EXCEPT !.subscriptions[i].events = Append(@, message.event)]
          ELSE c
     ELSE IF message.type = "EOSE"
     THEN IF i # 0 THEN endSubscription(c, message.subId) ELSE c
     ELSE c

\* RelayConnection.handleMessage for an array message [type, subId, event]
handleMessage(c, message) ==
  LET i == SubIndex(c, message.subId)
  IN IF message.type = "EVENT"
     THEN IF i # 0 /\ message.event.kind = 3
          THEN [c EXCEPT !.subscriptions[i].events = Append(@, message.event)]
          ELSE c
     ELSE IF message.type = "EOSE"
     THEN IF i # 0 THEN endSubscription(c, message.subId) ELSE c
     ELSE c

\* ws.onmessage: JSON.parse and handleMessage inside try/catch.  data.json
\* is "text" for a frame that is not JSON, "object" for JSON that is not an
\* array (destructuring it throws), "array" for [type, subId, event]; an
\* EVENT array without its third element makes "event.kind" throw when the
\* subscription exists
onmessage(c, data) ==
  IF data.json # "array" THEN c
  ELSE IF data.type = "EVENT" /\ "kind" \notin DOMAIN data.event THEN c
  ELSE handleMessage(c, data)

\* the body of fetchContactLists after "await this.connect()" for call i
subscribe(c, i) ==
  LET subId == c.subIdCounter + 1
      registered ==
        [c EXCEPT !.subIdCounter = subId,
                  !.subscriptions = Append(@, [subId |-> subId, events |-> <<>>]),
                  !.calls[i].pc = "sub",
                  !.calls[i].subId = subId]
  IN send(registered, [type |-> "REQ", subId |-> subId,
                       authors |-> c.calls[i].pubkeys])

\* the setTimeout callback of the subscription subId
onTimeout(c, subId) ==
  IF SubIndex(c, subId) # 0 THEN endSubscription(c, subId) ELSE c

RECURSIVE closeSubscriptions(_, _)
\* "for (const [subId, sub] of this.subscriptions)" of close()
closeSubscriptions(c, subs) ==
  IF subs = <<>> THEN c
  ELSE closeSubscriptions(
         send(deferredResolve(c, Head(subs).subId, Head(subs).events),
              [type |-> "CLOSE", subId |-> Head(subs).subId]),
         Tail(subs))

\* WebSocket.close()
socketClose(socket) ==
  IF socket.readyState \in {"CONNECTING", "OPEN"}
  THEN [socket EXCEPT !.readyState = "CLOSING"]
  ELSE socket

\* RelayConnection.close()
close(c) ==
  LET resolved == closeSubscriptions(c, c.subscriptions)
      cleared == [resolved EXCEPT !.subscriptions = <<>>]
  IN IF cleared.ws # 0
     THEN [cleared EXCEPT !.sockets[cleared.ws] = socketClose(@), !.ws = 0]
     ELSE cleared

(***************************************************************************)
(* State                                                                   *)
(***************************************************************************)
VARIABLES
  storage,        \* MemoryStorage.data: key -> stored text, or Absent
  poolConnected,  \* RelayPool.connected of LocalWoT.pool
  sy,             \* the locals of the running LocalWoT.sync call
  syncLog,        \* history: one summary per completed sync call
  now,            \* Date.now()
  upstream,       \* the contact-list event each identity has published
  qres,           \* the latest query call and its outcome
  relay,          \* the RelayConnection objects, one per relay URL
  poolCalls,      \* the calls issued on the RelayPool
  merged,         \* the latest merge of per-relay results and its outcome
  wot,            \* the fields of the WoT object
  window,         \* the browser's window.nostr, or Null outside a browser
  hook            \* one mounted React hook: props, state, ref, fetches in flight

relayVars == <<relay, poolCalls, merged>>
wotVars == <<wot, window, hook>>

vars ==
  <<storage, poolConnected, sy, syncLog, now, upstream, qres, relayVars, wotVars>>

Idle == [pc |-> "idle"]
NoQuery == [op |-> "none"]
\* a sync call that rejected with an error of the storage adapter
Rejected(err) == [pc |-> "idle", rejected |-> err]
NoMerge == [op |-> "none"]
\* no WoT object has been constructed
NoWoT == [none |-> TRUE]
\* no hook is mounted
NoHook == [none |-> TRUE]

\* the follow-list part of the storage
FollowsSnapshot(st) == [p \in RawPubkeys |-> st[FollowsKey(p)]]

Persisted(snap) == {p \in RawPubkeys : snap[p] # Absent}

(***************************************************************************)
(* LocalWoT.sync, one action per stretch between two awaits                *)
(***************************************************************************)
\* SetAdd on an array: push without the membership test
SetAdd_append(set, e) == Append(set, e)

\* Set.add on an insertion-ordered Set
SetAdd(set, e) == IF Includes(set, e) THEN set ELSE Append(set, e)

RECURSIVE AddFollows(_, _, _)
\* "for (const follow of follows) if (!visited.has(follow)) nextLayer.add(follow)"
AddFollows(nextLayer, follows, visited) ==
  IF follows = <<>> THEN nextLayer
  ELSE AddFollows(IF Head(follows) \notin visited
                  THEN SetAdd(nextLayer, Head(follows)) ELSE nextLayer,
                  Tail(follows), visited)

\* SyncEvent with the next layer filled only while "d < depth - 2"
SyncEvent_shallow(acc, event, d, depth) ==
  LET visited == acc.visited \cup {event.pubkey}
      follows == extractFollows(event)
  IN IF acc.failed THEN acc
     ELSE IF Down(acc.st, 0) THEN [acc EXCEPT !.failed = TRUE]
     ELSE [st |-> Served(setFollows(acc.st, event.pubkey, follows)),
           visited |-> visited,
           nextLayer |-> IF d < depth - 2
                         THEN AddFollows(acc.nextLayer, follows, visited)
                         ELSE acc.nextLayer,
           written |-> Append(acc.written, event.pubkey),
           failed |-> FALSE]

\* the body of "for (const [pubkey, event] of events)"
\* (a rejected "await this.setFollows" ends the sync: acc.failed)
SyncEvent(acc, event, d, depth) ==
  LET visited == acc.visited \cup {event.pubkey}
      follows == extractFollows(event)
  IN IF acc.failed THEN acc
     ELSE IF Down(acc.st, 0) THEN [acc EXCEPT !.failed = TRUE]
     ELSE [st |-> Served(setFollows(acc.st, event.pubkey, follows)),
           visited |-> visited,
           nextLayer |-> IF d < depth - 1
                         THEN AddFollows(acc.nextLayer, follows, visited)
                         ELSE acc.nextLayer,
           written |-> Append(acc.written, event.pubkey),
           failed |-> FALSE]

RECURSIVE SyncEvents(_, _, _, _)
SyncEvents(acc, events, d, depth) ==
  IF events = <<>> THEN acc
  ELSE SyncEvents(SyncEvent(acc, Head(events), d, depth), Tail(events), d, depth)

\* SyncMissing that marks the identities visited and persists nothing
SyncMissing_visitedOnly(acc, batch, events) ==
  [acc EXCEPT !.visited = @ \cup {p \in Range(batch) : ~MapHas(events, p)}]

RECURSIVE SyncMissing(_, _, _)
\* "for (const pubkey of batch) if (!events.has(pubkey)) ..."
SyncMissing(acc, batch, events) ==
  IF batch = <<>> THEN acc
  ELSE LET pubkey == Head(batch)
           acc2 == IF acc.failed \/ MapHas(events, pubkey) THEN acc
                   ELSE IF Down(acc.st, 0) THEN [acc EXCEPT !.failed = TRUE]
                   ELSE [acc EXCEPT !.visited = @ \cup {pubkey},
                                    !.st = Served(setFollows(@, pubkey, <<>>)),
                                    !.written = Append(@, pubkey)]
       IN SyncMissing(acc2, Tail(batch), events)

\* one iteration of "for (const batch of batches)" after the fetch resolved;
\* written lists the identities setFollows was called for, in order
SyncProcessBatch(st, visited, nextLayer, batch, events, d, depth) ==
  SyncMissing(SyncEvents([st |-> st, visited |-> visited,
                          nextLayer |-> nextLayer, written |-> <<>>,
                          failed |-> FALSE],
                         events, d, depth),
              batch, events)

\* FilterNotIn that keeps the whole layer
FilterNotIn_all(layer, visited) == layer

RECURSIVE FilterNotIn(_, _)
\* Array.from(currentLayer).filter((pk) => !visited.has(pk))
FilterNotIn(layer, visited) ==
  IF layer = <<>> THEN <<>>
  ELSE IF Head(layer) \in visited THEN FilterNotIn(Tail(layer), visited)
  ELSE <<Head(layer)>> \o FilterNotIn(Tail(layer), visited)

(***************************************************************************)
(* How a relay answers one REQ                                             *)
(***************************************************************************)
\* "eose": the stored events, then EOSE; "timeout": nothing arrives before the
\* timeout fires (empty partial result); "error": the call rejects (connect
\* failed), which the pool turns into [] with .catch(() => [])
RespKinds == {"eose", "timeout", "error"}

RECURSIVE StoredEvents(_, _)
\* the events a relay holds for the requested authors
StoredEvents(up, authors) ==
  IF authors = <<>> THEN <<>>
  ELSE LET rest == StoredEvents(up, Tail(authors))
       IN IF up[Head(authors)] = NoEvent THEN rest
          ELSE <<up[Head(authors)]>> \o rest

RelayResult(up, kind, authors) ==
  IF kind = "eose" THEN StoredEvents(up, authors) ELSE <<>>

\* RelayPool.fetchContactLists once connected: the merged result Map
poolFetchContactLists(up, resp, pubkeys) ==
  MergeAll(<<>>, [i \in 1..Cardinality(Relays) |->
                    RelayResult(up, resp[i], pubkeys)])

AllTransient(resp) == \A i \in Relays : resp[i] # "eose"

\* the SyncProgress object handed to options.onProgress
Report(d, depth, processed, total) ==
  [currentDepth |-> d + 1, totalDepth |-> depth, processed |-> processed,
   total |-> total]

\* Processed that counts the last batch only
Processed_lastBatch(processed, batch) == Len(batch)

\* "processed += batch.length"
Processed(processed, batch) == processed + Len(batch)

SyncStart(depth) ==
  /\ sy.pc = "idle"
  /\ Len(syncLog) < MaxClock
  /\ sy' = [pc |-> "loop", depth |-> depth, d |-> 0, visited |-> {},
            currentLayer |-> <<myPubkey>>, nextLayer |-> <<>>,
            batches |-> <<>>, fetched |-> {}, failed |-> {},
            requests |-> <<>>, written |-> <<>>,
            processed |-> 0, total |-> 0, progress |-> <<>>,
            startEmpty |-> (Persisted(FollowsSnapshot(storage)) = {})]
  /\ UNCHANGED <<storage, poolConnected, syncLog, now, upstream, qres, relayVars, wotVars>>

\* the head of "for (let d = 0; d < depth; d++)" up to the first fetch
SyncRound ==
  /\ sy.pc = "loop"
  /\ LET toFetch == FilterNotIn(sy.currentLayer, sy.visited)
     IN IF sy.d < sy.depth /\ Len(toFetch) > 0
        THEN sy' = [sy EXCEPT !.pc = "fetch", !.nextLayer = <<>>,
                              !.batches = chunk(toFetch, BatchSize),
                              !.processed = 0, !.total = Len(toFetch),
                              !.progress = Append(@, Report(sy.d, sy.depth, 0,
                                                            Len(toFetch)))]
        ELSE sy' = [sy EXCEPT !.pc = "finish"]
  /\ UNCHANGED <<storage, poolConnected, syncLog, now, upstream, qres, relayVars, wotVars>>

\* pool.connect() of the first fetch rejects: no relay connects
SyncReject ==
  /\ sy.pc = "fetch"
  /\ ~poolConnected
  /\ sy' = Idle
  /\ UNCHANGED <<storage, poolConnected, syncLog, now, upstream, qres, relayVars, wotVars>>

\* a fetch resolves and its batch is persisted; the storage adapter serves
\* "serves" of the writes and fails the next, which rejects the sync
SyncBatch(resp, serves) ==
  /\ sy.pc = "fetch"
  /\ ~poolConnected => ~(\A i \in Relays : resp[i] = "error")
  /\ LET batch == Head(sy.batches)
         events == poolFetchContactLists(upstream, resp, batch)
         acc == SyncProcessBatch(Failing(storage, serves), sy.visited,
                                 sy.nextLayer, batch, events, sy.d, sy.depth)
         rest == Tail(sy.batches)
         logged == [sy EXCEPT
                      !.visited = acc.visited,
                      !.nextLayer = acc.nextLayer,
                      !.batches = rest,
                      !.fetched = @ \cup Range(batch),
                      !.requests = Append(@, batch),
                      !.written = @ \o acc.written,
                      !.processed = Processed(@, batch),
                      !.progress = Append(@, Report(sy.d, sy.depth,
                                                    Processed(sy.processed, batch),
                                                    sy.total)),
                      !.failed = IF AllTransient(resp) THEN @ \cup Range(batch)
                                 ELSE @]
     IN /\ storage' = Healthy(acc.st)
        /\ sy' = IF acc.failed THEN Rejected("StorageError")
                 ELSE IF rest = <<>>
                 THEN [logged EXCEPT !.pc = "loop", !.d = @ + 1,
                                     !.currentLayer = acc.nextLayer]
                 ELSE logged
  /\ poolConnected' = TRUE
  /\ UNCHANGED <<syncLog, now, upstream, qres, relayVars, wotVars>>

\* "Save sync metadata": two writes, each of which can fail
SyncFinish(serves) ==
  /\ sy.pc = "finish"
  /\ LET st0 == Failing(storage, serves)
         st1 == IF Down(st0, 0) THEN st0
                ELSE Served(storageSet(st0, SYNC_DEPTH, JSONstringify(sy.depth)))
         st2 == IF Down(st0, 0) \/ Down(st1, 0) THEN st1
                ELSE Served(storageSet(st1, SYNC_TIME, JSONstringify(now)))
         failed == Down(st0, 0) \/ Down(st1, 0)
     IN /\ storage' = Healthy(st2)
        /\ syncLog' = IF failed THEN syncLog
                      ELSE Append(syncLog,
                                  [depth |-> sy.depth, fetched |-> sy.fetched,
                                   failed |-> sy.failed,
                                   startEmpty |-> sy.startEmpty,
                                   snap |-> FollowsSnapshot(storage)])
        /\ now' = IF failed THEN now ELSE now + 1
        /\ sy' = IF failed THEN Rejected("StorageError") ELSE Idle
  /\ UNCHANGED <<poolConnected, upstream, qres, relayVars, wotVars>>

(***************************************************************************)
(* Query calls                                                             *)
(***************************************************************************)
HopsRange == 0..MaxHopsBound
Targets == Ids \cup UpperIds \cup {"zz"}
Sources == Ids \cup {"zz"}

\* Called for a query that records the time of its call in the storage
Called_recordsTime(op, from, target, maxHops, serves, out, reads) ==
  /\ qres = NoQuery
  /\ qres' = [op |-> op, from |-> from, target |-> target,
              maxHops |-> maxHops, serves |-> serves, out |-> out,
              reads |-> reads]
  /\ storage' = storageSet(storage, SYNC_TIME, JSONstringify(now))
  /\ UNCHANGED <<poolConnected, sy, syncLog, now, upstream, relayVars, wotVars>>

\* the caller awaits one query at a time; the adapter serves "serves"
\* operations of the query and fails the next
Called(op, from, target, maxHops, serves, out, reads) ==
  /\ qres = NoQuery
  /\ qres' = [op |-> op, from |-> from, target |-> target,
              maxHops |-> maxHops, serves |-> serves, out |-> out,
              reads |-> reads]
  /\ UNCHANGED <<storage, poolConnected, sy, syncLog, now, upstream, relayVars, wotVars>>

GetDistance(target, maxHops, serves) ==
  LET st == Failing(storage, serves)
  IN Called("getDistance", myPubkey, target, maxHops, serves,
            getDistance(st, target, maxHops),
            getDistanceReads(st, myPubkey, target, maxHops))

GetDistanceBetween(from, to, maxHops, serves) ==
  LET st == Failing(storage, serves)
  IN Called("getDistanceBetween", from, to, maxHops, serves,
            getDistanceBetween(st, from, to, maxHops),
            getDistanceReads(st, from, to, maxHops))

GetDetails(target, maxHops, serves) ==
  LET st == Failing(storage, serves)
  IN Called("getDetails", myPubkey, target, maxHops, serves,
            getDetails(st, target, maxHops),
            getDetailsReads(st, target, maxHops))

IsInMyWoT(target, maxHops, serves) ==
  LET st == Failing(storage, serves)
  IN Called("isInMyWoT", myPubkey, target, maxHops, serves,
            isInMyWoT(st, target, maxHops),
            getDistanceReads(st, myPubkey, target, maxHops))

GetTrustScore(target, maxHops, serves) ==
  LET st == Failing(storage, serves)
  IN Called("getTrustScore", myPubkey, target, maxHops, serves,
            getTrustScore(st, target, maxHops),
            getDetailsReads(st, target, maxHops))

BatchCheck(targets, maxHops, serves) ==
  LET run == batchCheck(Failing(storage, serves), targets, maxHops)
  IN Called("batchCheck", myPubkey, targets, maxHops, serves, run.out,
            run.reads)

GetSyncStatus(serves) ==
  LET run == getSyncStatus(Failing(storage, serves))
  IN Called("getSyncStatus", myPubkey, <<>>, 0, serves, run.out, run.reads)

\* LocalWoT.clear on an adapter that serves the call
Clear ==
  /\ qres = NoQuery
  /\ storage' = EmptyStorage
  /\ UNCHANGED <<poolConnected, sy, syncLog, now, upstream, qres, relayVars, wotVars>>

\* the caller has received the outcome of its query
QueryReturn ==
  /\ qres # NoQuery
  /\ qres' = NoQuery
  /\ UNCHANGED <<storage, poolConnected, sy, syncLog, now, upstream, relayVars, wotVars>>

\* a caller applies calculateTrustScore to a query result and a weight
\* configuration of its own
ScoreCall(result, scoring) ==
  /\ qres = NoQuery
  /\ qres' = [op |-> "calculateTrustScore", result |-> result,
              scoring |-> scoring,
              out |-> calculateTrustScore(result, scoring)]
  /\ UNCHANGED <<storage, poolConnected, sy, syncLog, now, upstream, relayVars, wotVars>>

(***************************************************************************)
(* WoT (wot.ts): the extension of the browser, the pubkey in effect and    *)
(* the requests to the oracle                                              *)
(***************************************************************************)
\* a pubkey that is not null
Pk(pubkey) == [pk |-> pubkey]

\* utils.ts
DEFAULT_MAX_HOPS == 3

\* the pubkey of the user of the extension
ExtensionPubkey == "x"

\* the constructor: options.myPubkey if it is valid, else
\* options.fallback.myPubkey, else null
WoTconstructor(myPubkeyOption, fallbackMyPubkey) ==
  [fallbackPubkey |->
     IF myPubkeyOption # Null /\ isValidPubkey(myPubkeyOption.pk)
     THEN Pk(normalizePubkey(myPubkeyOption.pk))
     ELSE IF fallbackMyPubkey # Null
     THEN Pk(normalizePubkey(fallbackMyPubkey.pk))
     ELSE Null,
   extension |-> FALSE,
   extensionPubkey |-> Null]

\* window.nostr: whether the extension has injected window.nostr.wot, how
\* its getMyPubkey() settles, and whether NIP-07 getPublicKey exists and how
\* it settles
Window(present, getMyPubkey, getPublicKey) ==
  [wot |-> present, getMyPubkey |-> getMyPubkey, getPublicKey |-> getPublicKey]

\* window.nostr.wot is there
Present(win) == win # Null /\ win.wot

\* WoT.getExtension: the object after the call and what the call returns
getExtension(w, win) ==
  IF win = Null THEN [w |-> w, ext |-> FALSE]
  ELSE IF win.wot
  THEN [w |-> [w EXCEPT
                 !.extension = TRUE,
                 !.extensionPubkey =
                   IF @ # Null THEN @
                   ELSE IF win.getMyPubkey = "ok" THEN Pk(ExtensionPubkey)
                   ELSE IF win.getPublicKey = "ok" THEN Pk(ExtensionPubkey)
                   ELSE Null],
        ext |-> TRUE]
  ELSE [w |-> [w EXCEPT !.extension = FALSE], ext |-> FALSE]

\* WoT.getEffectivePubkey
getEffectivePubkey(w, win) ==
  LET got == getExtension(w, win)
  IN [w |-> got.w,
      out |-> IF got.w.extensionPubkey # Null THEN got.w.extensionPubkey
              ELSE IF got.w.fallbackPubkey # Null THEN got.w.fallbackPubkey
              ELSE Throw("ValidationError")]

\* how the oracle answers a request
OracleAnswers == {"ok", "notFound", "network"}

\* a request to the oracle
Request(endpoint, pubkey, targets) ==
  [endpoint |-> endpoint, myPubkey |-> pubkey, targets |-> targets]

\* the value the extension returns for a call delegated to it
FromExtension(method) == [extension |-> method]

\* getDistance, getDetails and batchCheck after the targets were validated:
\* the extension if there is one, else one request to the oracle with the
\* pubkey in effect; found is what the oracle's answer "ok" becomes
Delegated(w, win, endpoint, targets, answer, found, notFound, network) ==
  LET got == getExtension(w, win)
      effective == getEffectivePubkey(got.w, win)
  IN IF got.ext
     THEN [w |-> got.w, out |-> FromExtension(endpoint), requests |-> <<>>]
     ELSE IF "throw" \in DOMAIN effective.out
     THEN [w |-> effective.w, out |-> effective.out, requests |-> <<>>]
     ELSE [w |-> effective.w,
           out |-> CASE answer = "ok" -> found
                     [] answer = "notFound" -> notFound
                     [] answer = "network" -> network,
           requests |-> <<Request(endpoint, effective.out.pk, targets)>>]

\* a method of the WoT object is called and settles
WoTCalled(op, targets, run) ==
  /\ qres = NoQuery
  /\ wot # NoWoT
  /\ qres' = [op |-> op, target |-> targets, present |-> Present(window),
              out |-> run.out, requests |-> run.requests]
  /\ wot' = run.w
  /\ UNCHANGED <<storage, poolConnected, sy, syncLog, now, upstream, relayVars,
                 window, hook>>

\* WoT.getMyPubkey
WoTGetMyPubkey ==
  LET run == getEffectivePubkey(wot, window)
  IN WoTCalled("WoT.getMyPubkey", <<>>,
               [w |-> run.w, out |-> run.out, requests |-> <<>>])

Invalid(w) == [w |-> w, out |-> Throw("ValidationError"), requests |-> <<>>]

\* WoT.getDistance
WoTGetDistance(target, answer) ==
  WoTCalled("WoT.getDistance", <<target>>,
            IF validatePubkeyThrows(target) THEN Invalid(wot)
            ELSE Delegated(wot, window, "distance",
                           <<normalizePubkey(target)>>, answer,
                           Num(2), Null, Throw("NetworkError")))

\* WoT.getDetails
WoTGetDetails(target, answer) ==
  WoTCalled("WoT.getDetails", <<target>>,
            IF validatePubkeyThrows(target) THEN Invalid(wot)
            ELSE Delegated(wot, window, "details",
                           <<normalizePubkey(target)>>, answer,
                           [hops |-> 2, paths |-> 1, score |-> Num(0)], Null,
                           Throw("NetworkError")))

\* the entry batchCheck sets for a target
BatchEntry(pubkey, distance, maxHops) ==
  [pubkey |-> pubkey, distance |-> distance, score |-> Num(0),
   inWoT |-> distance # Null /\ distance.num <= maxHops]

\* WoT.batchCheck for a list within MAX_BATCH_SIZE that fits one request: a
\* failed request fills the results with null distances, and an error that
\* is not a NetworkError is thrown again
WoTbatchCheck(w, win, targets, answer) ==
  LET normalizedTargets == [i \in 1..Len(targets) |-> normalizePubkey(targets[i])]
      filled == [map |-> [p \in Range(normalizedTargets) |->
                            BatchEntry(p, Null, DEFAULT_MAX_HOPS)]]
  IN IF Len(targets) = 0
        \/ \E i \in 1..Len(targets) : validatePubkeyThrows(targets[i])
     THEN Invalid(w)
     ELSE Delegated(w, win, "batch", normalizedTargets, answer,
                    [map |-> [p \in Range(normalizedTargets) |->
                                BatchEntry(p, Num(2), DEFAULT_MAX_HOPS)]],
                    Throw("NotFoundError"), filled)

WoTBatchCheck(targets, answer) ==
  WoTCalled("WoT.batchCheck", targets, WoTbatchCheck(wot, window, targets, answer))

RECURSIVE WellFormed(_)
\* "pubkeys.filter((pk) => isValidPubkey(pk)).map((pk) => normalizePubkey(pk))"
WellFormed(pubkeys) ==
  IF pubkeys = <<>> THEN <<>>
  ELSE IF isValidPubkey(Head(pubkeys))
  THEN <<normalizePubkey(Head(pubkeys))>> \o WellFormed(Tail(pubkeys))
  ELSE WellFormed(Tail(pubkeys))

RECURSIVE Distinct(_)
\* the keys of a Map that was filled in the order of the list
Distinct(list) ==
  IF list = <<>> THEN <<>>
  ELSE <<Head(list)>>
       \o Distinct(SelectSeq(Tail(list), LAMBDA p : p # Head(list)))

\* WoT.filterByWoT: the extension's filterByWoT if there is an extension,
\* else batchCheck and the entries with inWoT
filterByWoT(w, win, pubkeys, answer) ==
  IF Len(pubkeys) = 0 THEN [w |-> w, out |-> [list |-> <<>>], requests |-> <<>>]
  ELSE LET normalizedPubkeys == WellFormed(pubkeys)
           got == getExtension(w, win)
           run == WoTbatchCheck(got.w, win, normalizedPubkeys, answer)
       IN IF got.ext
          THEN [w |-> got.w, out |-> FromExtension("filterByWoT"),
                requests |-> <<>>]
          ELSE IF "throw" \in DOMAIN run.out THEN run
          ELSE [w |-> run.w,
                out |-> [list |-> SelectSeq(Distinct(normalizedPubkeys),
                                            LAMBDA p : run.out.map[p].inWoT)],
                requests |-> run.requests]

WoTFilterByWoT(pubkeys, answer) ==
  WoTCalled("WoT.filterByWoT", pubkeys, filterByWoT(wot, window, pubkeys, answer))

\* the extension is enabled, disabled or reloaded, or the page is another one
WindowChange(win) ==
  /\ window # Null
  /\ window' = win
  /\ UNCHANGED <<storage, poolConnected, sy, syncLog, now, upstream, qres,
                 relayVars, wot, hook>>

(***************************************************************************)
(* RelayConnection: calls, socket events, frames and timers.  JavaScript   *)
(* runs one task at a time and empties the microtask queue before the next *)
(* task: a socket event, a frame or a timer is dispatched only when no     *)
(* continuation of an await is ready to run, while a caller may issue      *)
(* further calls before the continuation of an earlier call has run.       *)
(***************************************************************************)
\* a call record; p is the promise its connect() returned
NewCall(op, p, pubkeys) ==
  [op |-> op, pc |-> "connect", p |-> p, subId |-> 0, result |-> <<>>,
   pubkeys |-> pubkeys]

\* a task or a continuation starts on the connection: nothing sent yet
Task(c) == [c EXCEPT !.sent = <<>>]

\* the continuation of "await this.connect()" of some call can run
ContinuationReady(c) ==
  \E i \in 1..Len(c.calls) :
    c.calls[i].pc = "connect" /\ PromiseState(c, c.calls[i].p) # "pending"

\* the continuation of some pool call can run: the calls it awaits on the
\* relays have settled
PoolContinuationReady ==
  \E i \in 1..Len(poolCalls) :
    \/ poolCalls[i].pc = "connected"
    \/ /\ poolCalls[i].pc \in {"allSettled", "all"}
       /\ \A r \in Relays :
            relay[r].calls[poolCalls[i].rcalls[r]].pc \in {"resolved", "rejected"}

\* the continuation of "await pool.fetchContactLists(batch)" can run
SyncContinuationReady ==
  sy.pc = "await" /\ poolCalls[1].pc \in {"resolved", "rejected"}

MicrotasksDone ==
  /\ \A r \in Relays : ~ContinuationReady(relay[r])
  /\ ~PoolContinuationReady
  /\ ~SyncContinuationReady

UnchangedBelowRelay ==
  UNCHANGED <<storage, poolConnected, sy, syncLog, now, upstream, qres, wotVars,
              poolCalls, merged>>

RECURSIVE SumLen(_, _)
\* the sum of the lengths of the sequences in field f of the records of seq
SumLen(seq, f) ==
  IF seq = <<>> THEN 0 ELSE Len(Head(seq)[f]) + SumLen(Tail(seq), f)

\* the number of events the connection has buffered or returned
EventsReceived(c) == SumLen(c.subscriptions, "events") + SumLen(c.calls, "result")

\* a caller invokes connect() on the connection
ConnectCall(r, throws) ==
  /\ Len(relay[r].calls) < MaxCalls
  /\ LET res == connect(Task(relay[r]), throws)
     IN relay' = [relay EXCEPT
                       ![r] = [res.c EXCEPT
                                 !.calls = Append(@, NewCall("connect", res.p, <<>>))]]
  /\ UnchangedBelowRelay

\* a caller invokes fetchContactLists(pubkeys): the code up to the await
FetchCall(r, pubkeys, throws) ==
  /\ Len(relay[r].calls) < MaxFetches
  /\ LET res == connect(Task(relay[r]), throws)
     IN relay' = [relay EXCEPT
                       ![r] = [res.c EXCEPT
                                 !.calls = Append(@, NewCall("fetch", res.p, pubkeys))]]
  /\ UnchangedBelowRelay

\* the promise awaited by call i is fulfilled: a connect() call has
\* resolved, a fetchContactLists call registers its subscription, sends the
\* REQ and arms its timer
CallResume(r, i) ==
  /\ i \in 1..Len(relay[r].calls)
  /\ relay[r].calls[i].pc = "connect"
  /\ PromiseState(relay[r], relay[r].calls[i].p) = "fulfilled"
  /\ relay' = [relay EXCEPT
                 ![r] = IF relay[r].calls[i].op = "fetch"
                        THEN subscribe(Task(relay[r]), i)
                        ELSE [Task(relay[r]) EXCEPT !.calls[i].pc = "resolved"]]
  /\ UnchangedBelowRelay

\* the promise awaited by call i is rejected: the call rejects
CallReject(r, i) ==
  /\ i \in 1..Len(relay[r].calls)
  /\ relay[r].calls[i].pc = "connect"
  /\ PromiseState(relay[r], relay[r].calls[i].p) = "rejected"
  /\ relay' = [relay EXCEPT ![r] = [Task(relay[r]) EXCEPT !.calls[i].pc = "rejected"]]
  /\ UnchangedBelowRelay

\* a caller invokes close()
CloseCall(r) ==
  /\ relay' = [relay EXCEPT ![r] = close(Task(relay[r]))]
  /\ UnchangedBelowRelay

\* the open event of socket s
SocketOpen(r, s) ==
  /\ MicrotasksDone
  /\ s \in 1..Len(relay[r].sockets)
  /\ relay[r].sockets[s].readyState = "CONNECTING"
  /\ relay' = [relay EXCEPT
                 ![r] = onopen([Task(relay[r]) EXCEPT !.sockets[s].readyState = "OPEN"], s)]
  /\ UnchangedBelowRelay

\* the error event of socket s: the connection has failed
SocketError(r, s) ==
  /\ MicrotasksDone
  /\ s \in 1..Len(relay[r].sockets)
  /\ ~relay[r].sockets[s].errorFired
  /\ ~relay[r].sockets[s].closeFired
  /\ relay' = [relay EXCEPT
                 ![r] = onerror([Task(relay[r]) EXCEPT
                                   !.sockets[s].readyState = "CLOSED",
                                   !.sockets[s].errorFired = TRUE], s)]
  /\ UnchangedBelowRelay

\* the close event of socket s, after an error event or without one
SocketClose(r, s) ==
  /\ MicrotasksDone
  /\ s \in 1..Len(relay[r].sockets)
  /\ ~relay[r].sockets[s].closeFired
  /\ relay' = [relay EXCEPT
                 ![r] = onclose([Task(relay[r]) EXCEPT
                                   !.sockets[s].readyState = "CLOSED",
                                   !.sockets[s].closeFired = TRUE], s)]
  /\ UnchangedBelowRelay

\* a frame arrives on the open socket s
OnMessage(r, s, data) ==
  /\ MicrotasksDone
  /\ s \in 1..Len(relay[r].sockets)
  /\ relay[r].sockets[s].readyState = "OPEN"
  /\ data.type = "EVENT" => EventsReceived(relay[r]) < MaxEvents
  /\ relay' = [relay EXCEPT ![r] = onmessage(Task(relay[r]), data)]
  /\ UnchangedBelowRelay

\* the timer of call i fires (it is cleared once the call has returned)
Timeout(r, i) ==
  /\ MicrotasksDone
  /\ i \in 1..Len(relay[r].calls)
  /\ relay[r].calls[i].op = "fetch"
  /\ relay[r].calls[i].pc = "sub"
  /\ relay' = [relay EXCEPT ![r] = onTimeout(Task(relay[r]), relay[r].calls[i].subId)]
  /\ UnchangedBelowRelay

(***************************************************************************)
(* RelayPool: connect() and fetchContactLists() over the connections       *)
(***************************************************************************)
\* the relays in the order of this.relays
RelayOrder == [i \in 1..Cardinality(Relays) |-> i]

\* a pool call record; rcalls[r] is the index in relay[r].calls of the call
\* the pool call has issued on relay r and awaits
NewPoolCall(op, pc, pubkeys, rcalls) ==
  [op |-> op, pc |-> pc, pubkeys |-> pubkeys, rcalls |-> rcalls, result |-> <<>>]

\* every relay with one more call: "this.relays.map((relay) => relay.f())"
MapRelays(rel, op, pubkeys, throws) ==
  [r \in Relays |->
     LET res == connect(Task(rel[r]), throws[r])
     IN [res.c EXCEPT !.calls = Append(@, NewCall(op, res.p, pubkeys))]]

\* the calls the pool call awaits
Awaited(rel, call) == [r \in Relays |-> rel[r].calls[call.rcalls[r]]]

AllSettled(rel, call) ==
  \A r \in Relays : Awaited(rel, call)[r].pc \in {"resolved", "rejected"}

\* "results.filter((r) => r.status === 'fulfilled')" is not empty
SomeFulfilled(rel, call) ==
  \E r \in Relays : Awaited(rel, call)[r].pc = "resolved"

\* a fetchContactLists promise without the catch of line 243
CatchEmpty_rethrows(call) == call

\* "relay.fetchContactLists(pubkeys, timeout).catch(() => [])"
CatchEmpty(call) ==
  IF call.pc = "rejected" THEN [call EXCEPT !.pc = "resolved", !.result = <<>>]
  ELSE call

\* Promise.all over the calls: rejected as soon as one has rejected,
\* resolved when all have resolved
PromiseAll(calls) ==
  IF \E r \in Relays : calls[r].pc = "rejected" THEN "rejected"
  ELSE IF \A r \in Relays : calls[r].pc = "resolved" THEN "resolved"
  ELSE "pending"

UnchangedBelowPool ==
  UNCHANGED <<storage, sy, syncLog, now, upstream, qres, wotVars, merged>>

\* pool.connect() and the "await this.connect()" of pool.fetchContactLists:
\* the code up to the await of Promise.allSettled
poolCallIssue(op, pubkeys, throws) ==
  /\ poolCalls = <<>>
  /\ IF poolConnected
     THEN /\ poolCalls' = Append(poolCalls,
                                 NewPoolCall(op, "connected", pubkeys,
                                             [r \in Relays |-> 0]))
          /\ relay' = relay
     ELSE /\ relay' = MapRelays(relay, "connect", <<>>, throws)
          /\ poolCalls' = Append(poolCalls,
                                 NewPoolCall(op, "allSettled", pubkeys,
                                             [r \in Relays |-> Len(relay[r].calls) + 1]))
  /\ UNCHANGED poolConnected

\* a caller invokes pool.connect() or pool.fetchContactLists(pubkeys)
PoolCall(op, pubkeys, throws) ==
  /\ poolCallIssue(op, pubkeys, throws)
  /\ UnchangedBelowPool

\* Promise.allSettled has settled and no relay has connected: the call
\* throws RelayError('all')
PoolConnectReject(i) ==
  /\ i \in 1..Len(poolCalls)
  /\ poolCalls[i].pc = "allSettled"
  /\ AllSettled(relay, poolCalls[i])
  /\ ~SomeFulfilled(relay, poolCalls[i])
  /\ poolCalls' = [poolCalls EXCEPT ![i].pc = "rejected"]
  /\ UNCHANGED <<relay, poolConnected>>
  /\ UnchangedBelowPool

\* Promise.allSettled has settled and some relay has connected
PoolConnected(i) ==
  /\ i \in 1..Len(poolCalls)
  /\ poolCalls[i].pc = "allSettled"
  /\ AllSettled(relay, poolCalls[i])
  /\ SomeFulfilled(relay, poolCalls[i])
  /\ poolConnected' = TRUE
  /\ poolCalls' = [poolCalls EXCEPT
                     ![i].pc = IF poolCalls[i].op = "connect" THEN "resolved"
                               ELSE "connected"]
  /\ UNCHANGED relay
  /\ UnchangedBelowPool

\* connect() has returned to a pool.connect() call made when connected
PoolConnectReturn(i) ==
  /\ i \in 1..Len(poolCalls)
  /\ poolCalls[i].op = "connect"
  /\ poolCalls[i].pc = "connected"
  /\ poolCalls' = [poolCalls EXCEPT ![i].pc = "resolved"]
  /\ UNCHANGED <<relay, poolConnected>>
  /\ UnchangedBelowPool

\* pool.fetchContactLists after "await this.connect()": one
\* fetchContactLists call per relay
PoolFetchIssue(i, throws) ==
  /\ i \in 1..Len(poolCalls)
  /\ poolCalls[i].op = "fetch"
  /\ poolCalls[i].pc = "connected"
  /\ relay' = MapRelays(relay, "fetch", poolCalls[i].pubkeys, throws)
  /\ poolCalls' = [poolCalls EXCEPT
                     ![i].pc = "all",
                     ![i].rcalls = [r \in Relays |-> Len(relay[r].calls) + 1]]
  /\ UNCHANGED poolConnected
  /\ UnchangedBelowPool

\* Promise.all has settled: the merge loop and "return results", or the
\* rejection leaves the call
PoolFetchSettle(i) ==
  /\ i \in 1..Len(poolCalls)
  /\ poolCalls[i].pc = "all"
  /\ LET caught == [r \in Relays |-> CatchEmpty(Awaited(relay, poolCalls[i])[r])]
         outcome == PromiseAll(caught)
     IN /\ outcome # "pending"
        /\ poolCalls' = [poolCalls EXCEPT
                           ![i].pc = outcome,
                           ![i].result =
                              IF outcome = "resolved"
                              THEN MergeAll(<<>>, [k \in 1..Cardinality(Relays) |->
                                                     caught[RelayOrder[k]].result])
                              ELSE <<>>]
  /\ UNCHANGED <<relay, poolConnected>>
  /\ UnchangedBelowPool

(***************************************************************************)
(* LocalWoT.sync over the RelayPool: "await pool.fetchContactLists(batch)" *)
(***************************************************************************)
\* the first sync({depth: 1}) call of a LocalWoT whose pool is new
SyncStartFirst ==
  /\ poolCalls = <<>>
  /\ SyncStart(1)

\* line 135 up to the await inside the pool
SyncPoolFetch(throws) ==
  /\ sy.pc = "fetch"
  /\ poolCallIssue("fetch", Head(sy.batches), throws)
  /\ sy' = [sy EXCEPT !.pc = "await"]
  /\ UNCHANGED <<storage, syncLog, now, upstream, qres, wotVars, merged>>

\* the pool call has rejected: the exception leaves sync
SyncPoolRejected ==
  /\ sy.pc = "await"
  /\ poolCalls[1].pc = "rejected"
  /\ sy' = [pc |-> "rejected"]
  /\ UNCHANGED <<storage, poolConnected, syncLog, now, upstream, qres, relayVars, wotVars>>

\* the pool call has resolved: the batch is persisted
SyncPoolResolved ==
  /\ sy.pc = "await"
  /\ poolCalls[1].pc = "resolved"
  /\ LET batch == Head(sy.batches)
         events == poolCalls[1].result
         acc == SyncProcessBatch(storage, sy.visited, sy.nextLayer, batch,
                                 events, sy.d, sy.depth)
         rest == Tail(sy.batches)
         logged == [sy EXCEPT
                      !.visited = acc.visited,
                      !.nextLayer = acc.nextLayer,
                      !.batches = rest,
                      !.fetched = @ \cup Range(batch),
                      !.requests = Append(@, batch),
                      !.written = @ \o acc.written,
                      !.processed = Processed(@, batch),
                      !.progress = Append(@, Report(sy.d, sy.depth,
                                                    Processed(sy.processed, batch),
                                                    sy.total))]
     IN /\ storage' = acc.st
        /\ sy' = IF rest = <<>>
                 THEN [logged EXCEPT !.pc = "loop", !.d = @ + 1,
                                     !.currentLayer = acc.nextLayer]
                 ELSE [logged EXCEPT !.pc = "fetch"]
  /\ UNCHANGED <<poolConnected, syncLog, now, upstream, qres, relayVars, wotVars>>

(***************************************************************************)
(* The merge loop of RelayPool.fetchContactLists on its own                *)
(***************************************************************************)
\* lines 247-257 applied to the arrays the relays returned, in the order of
\* this.relays
Merge(allEvents) ==
  /\ merged = NoMerge
  /\ merged' = [op |-> "merge", allEvents |-> allEvents,
                out |-> MergeAll(<<>>, allEvents)]
  /\ UNCHANGED <<storage, poolConnected, sy, syncLog, now, upstream, qres, wotVars,
                 relay, poolCalls>>

\* the caller has received the merged Map
MergeReturn ==
  /\ merged # NoMerge
  /\ merged' = NoMerge
  /\ UNCHANGED <<storage, poolConnected, sy, syncLog, now, upstream, qres, wotVars,
                 relay, poolCalls>>

(***************************************************************************)
(* Upstream graphs and persisted snapshots the model explores              *)
(***************************************************************************)
PTags(list) == [i \in 1..Len(list) |-> <<"p", list[i]>>]

\* per identity, the follow lists an upstream contact list is drawn from
UpstreamLists ==
  [p \in Ids |-> CASE p = "r" -> {<<"a", "b">>, <<"b">>}
                   [] p = "a" -> {<<>>, <<"x">>, <<"x", "A">>}
                   [] p = "b" -> {<<"x">>, <<"t">>}
                   [] p = "x" -> {<<>>, <<"t">>, <<"t", "r">>}
                   [] p = "t" -> {<<"r">>}]

\* tags of a contact list that are not follows
NoiseTags == << <<"e", "a">>, <<"p", "zz">>, <<"p", "">> >>

\* the root and t may also have published nothing
UpstreamOptions(p) ==
  (IF p \in {"r", "t"} THEN {NoEvent} ELSE {})
  \cup {Event(p, 1, PTags(l) \o (IF p = "t" THEN NoiseTags ELSE <<>>)) :
          l \in UpstreamLists[p]}

\* per identity, the follow lists a persisted list is drawn from; they hold
\* cycles (t -> r, x -> r), a self-follow (x -> x), a duplicate entry
\* (t: r, r), both orders of a and b, and targets at 1, 2 and 3 hops
SnapshotLists ==
  [p \in Ids |-> CASE p = "r" -> SubSeqs(<<"a", "b", "t">>) \cup {<<"b", "a">>}
                   [] p = "a" -> {<<"x">>, <<"t">>, <<"x", "t">>}
                   [] p = "b" -> {<<"x">>, <<"t">>}
                   [] p = "x" -> {<<"t">>, <<"t", "x">>, <<"r">>}
                   [] p = "t" -> {<<"r">>, <<"r", "r">>}]

\* every identity may also have no persisted list
SnapshotOptions(p) ==
  {Absent} \cup {JSONstringify(l) : l \in SnapshotLists[p]}

\* a world in which nobody has published anything
NoUpstream == [p \in Ids |-> NoEvent]

\* the third element of a frame that has none
Missing == [missing |-> TRUE]

\* an event of another kind than 3
OtherKindEvent == [pubkey |-> "a", created_at |-> 3, kind |-> 1, tags |-> <<>>]

\* contact lists a relay sends in EVENT frames
FrameEvents == {Event("a", 1, <<>>), Event("b", 1, <<>>)}

\* subscription ids a frame carries: those the connection can have issued
\* and one it never issues
FrameSubIds == 1..(MaxFetches + 1)

\* what a socket delivers to onmessage
Frames ==
  {[json |-> "text", type |-> "none", subId |-> 0, event |-> Missing],
   [json |-> "object", type |-> "none", subId |-> 0, event |-> Missing]}
  \cup {[json |-> "array", type |-> "EVENT", subId |-> n, event |-> e] :
          n \in FrameSubIds, e \in FrameEvents \cup {OtherKindEvent, Missing}}
  \cup {[json |-> "array", type |-> t, subId |-> n, event |-> Missing] :
          t \in {"EOSE", "NOTICE", "OK"}, n \in FrameSubIds}

\* query results handed to calculateTrustScore
ScoreHops == 0..5
ScorePaths == 1..3
ScoreResults == [hops : ScoreHops, paths : ScorePaths, mutual : BOOLEAN]

\* the largest finite value, in hundredths
Huge == MaxFinite * 100

\* weight configurations handed to calculateTrustScore: the defaults, a
\* weight for hop count 0, a single key, no key at all, negative values,
\* bonuses that push the raw value above 1, and the largest finite values
ScoreConfigs ==
  {DEFAULT_SCORING,
   [DEFAULT_SCORING EXCEPT !.distanceWeights =
      [h \in 0..2 |-> CASE h = 0 -> 100 [] h = 1 -> 90 [] h = 2 -> 40]],
   [DEFAULT_SCORING EXCEPT !.distanceWeights = [h \in {2} |-> 50]],
   [DEFAULT_SCORING EXCEPT !.distanceWeights = [h \in {} |-> 0]],
   [distanceWeights |-> [h \in 1..2 |-> 100],
    mutualBonus |-> 200, pathBonus |-> 150, maxPathBonus |-> 200],
   [distanceWeights |-> [h \in 1..2 |-> IF h = 1 THEN -100 ELSE 300],
    mutualBonus |-> -300, pathBonus |-> -100, maxPathBonus |-> 50],
   [distanceWeights |-> [h \in 0..1 |-> Huge],
    mutualBonus |-> Huge, pathBonus |-> Huge, maxPathBonus |-> Huge],
   [distanceWeights |-> [h \in 0..1 |-> 0],
    mutualBonus |-> Huge, pathBonus |-> Huge, maxPathBonus |-> Huge]}

(***************************************************************************)
(* Specifications                                                          *)
(***************************************************************************)
InitCommon ==
  /\ wot = NoWoT
  /\ window = Null
  /\ hook = NoHook
  /\ poolConnected = FALSE
  /\ sy = Idle
  /\ syncLog = <<>>
  /\ now = 1
  /\ qres = NoQuery
  /\ relay = [r \in Relays |-> NewRelayConnection]
  /\ poolCalls = <<>>
  /\ merged = NoMerge

\* after construction, with some upstream graph
Init ==
  /\ InitCommon
  /\ storage = EmptyStorage
  /\ \E up \in [Ids -> UNION {UpstreamOptions(p) : p \in Ids}] :
       /\ \A p \in Ids : up[p] \in UpstreamOptions(p)
       /\ upstream = up

NextSync ==
  \/ \E depth \in 0..MaxDepth : SyncStart(depth)
  \/ SyncRound
  \/ SyncReject
  \/ \E resp \in [Relays -> RespKinds] : SyncBatch(resp, Unlimited)
  \/ SyncFinish(Unlimited)

NextQuery ==
  \/ \E target \in Targets, maxHops \in HopsRange :
       GetDistance(target, maxHops, Unlimited)
  \/ \E from \in Sources, to \in Targets, maxHops \in HopsRange :
       GetDistanceBetween(from, to, maxHops, Unlimited)
  \/ \E target \in Targets, maxHops \in HopsRange :
       GetDetails(target, maxHops, Unlimited)
  \/ \E target \in Targets, maxHops \in HopsRange :
       IsInMyWoT(target, maxHops, Unlimited)
  \/ \E target \in Targets, maxHops \in HopsRange :
       GetTrustScore(target, maxHops, Unlimited)
  \/ QueryReturn

Next == NextSync \/ NextQuery

Spec == Init /\ [][Next]_vars

\* the sync engine alone
SpecSync == Init /\ [][NextSync]_vars

\* upstream graphs whose second layer needs several batches: the root
\* follows a, b and x; a follows x (which is in a later batch of its own
\* layer), itself and t, or b alone; b follows x and t; x follows t and the
\* root; t follows the root
WideUpstream(aList, xList) ==
  [p \in Ids |-> CASE p = "r" -> Event("r", 1, PTags(<<"a", "b", "x">>))
                   [] p = "a" -> Event("a", 1, PTags(aList))
                   [] p = "b" -> Event("b", 1, PTags(<<"x", "t">>))
                   [] p = "x" -> Event("x", 1, PTags(xList))
                   [] p = "t" -> Event("t", 1, PTags(<<"r">>))]

WideUpstreams ==
  {WideUpstream(aList, xList) :
     aList \in {<<"x", "A", "t">>, <<"b">>}, xList \in {<<"t", "r">>, <<>>}}

InitWide ==
  /\ InitCommon
  /\ storage = EmptyStorage
  /\ upstream \in WideUpstreams

\* the sync engine over the wide graphs
SpecWide == InitWide /\ [][NextSync]_vars

\* the wide graph held by a relay that answers the request for a with a
\* kind-3 event of another author (handleMessage keeps every kind-3 event of
\* the subscription, whoever signed it)
ForeignUpstream(author, aList) ==
  [p \in Ids |-> CASE p = "r" -> Event("r", 1, PTags(<<"a", "b", "x">>))
                   [] p = "a" -> Event(author, 1, PTags(aList))
                   [] p = "b" -> Event("b", 1, PTags(<<"x">>))
                   [] p = "x" -> Event("x", 1, PTags(<<>>))
                   [] p = "t" -> Event("t", 1, PTags(<<"r">>))]

ForeignUpstreams ==
  {ForeignUpstream(author, aList) :
     author \in {"a", "x", "t"}, aList \in {<<"b">>, <<"r", "t">>}}

InitForeign ==
  /\ InitCommon
  /\ storage = EmptyStorage
  /\ upstream \in ForeignUpstreams

\* the sync engine against relays that return events of other authors
SpecForeign == InitForeign /\ [][NextSync]_vars

\* the query engine over persisted snapshots
InitQuery ==
  /\ InitCommon
  /\ upstream = NoUpstream
  /\ \E fr \in SnapshotOptions("r"), fa \in SnapshotOptions("a"),
        fb \in SnapshotOptions("b"), fx \in SnapshotOptions("x"),
        ft \in SnapshotOptions("t") :
       storage = [k \in StorageKeys |->
                    CASE k = FollowsKey("r") -> fr
                      [] k = FollowsKey("a") -> fa
                      [] k = FollowsKey("b") -> fb
                      [] k = FollowsKey("x") -> fx
                      [] k = FollowsKey("t") -> ft
                      [] OTHER -> Absent]

SpecQuery == InitQuery /\ [][NextQuery]_vars

\* LocalWoT over an adapter that may fail: a relay may hold the contact
\* list of a under its author written in upper case, and the root follows
\* a alone or a and b
LocalUpstream(author, rootList) ==
  [p \in Ids |-> CASE p = "r" -> Event("r", 1, PTags(rootList))
                   [] p = "a" -> Event(author, 1, PTags(<<"t", "A">>))
                   [] p = "t" -> Event("t", 1, PTags(<<"r">>) \o NoiseTags)
                   [] OTHER -> NoEvent]

\* ... or nobody has published anything
LocalUpstreams ==
  {LocalUpstream("a", <<"a">>), LocalUpstream("A", <<"a">>),
   LocalUpstream("a", <<"a", "b">>), NoUpstream}

\* how many operations the adapter serves before it fails
ServesRange == {Unlimited} \cup {[num |-> n] : n \in 0..MaxServes}

LocalTargets == {"t", "a", "A", "zz", ""}
LocalPairs ==
  {<<"a", "t">>, <<"A", "t">>, <<"a", "zz">>, <<"zz", "t">>, <<"t", "A">>,
   <<"t", "a">>}
LocalBatches ==
  {<<>>, <<"a">>, <<"A">>, <<"zz">>, <<"t", "zz">>, <<"t", "A">>,
   <<"t", "a">>, <<"A", "a">>}
LocalDepths == {1, MaxDepth}

InitLocal ==
  /\ InitCommon
  /\ storage = EmptyStorage
  /\ upstream \in LocalUpstreams

\* the caller awaits each call before the next: a query finds no sync in
\* progress (a sync that a storage failure ended midway leaves the storage
\* as a query during the sync would find it); one sync at most completes,
\* every relay answers, and queries use the largest maxHops
SyncAwaited == sy.pc = "idle"

NextLocal ==
  \/ \E depth \in LocalDepths : Len(syncLog) < 1 /\ SyncStart(depth)
  \/ SyncRound
  \/ SyncReject
  \/ \E serves \in ServesRange :
       SyncBatch([r \in Relays |-> "eose"], serves)
  \/ \E serves \in ServesRange : SyncFinish(serves)
  \/ \E target \in LocalTargets, serves \in ServesRange :
       SyncAwaited /\ GetDistance(target, MaxHopsBound, serves)
  \/ \E pair \in LocalPairs, serves \in ServesRange :
       SyncAwaited /\ GetDistanceBetween(pair[1], pair[2], MaxHopsBound, serves)
  \/ \E target \in LocalTargets, serves \in ServesRange :
       SyncAwaited /\ GetDetails(target, MaxHopsBound, serves)
  \/ \E target \in LocalTargets, serves \in ServesRange :
       SyncAwaited /\ IsInMyWoT(target, MaxHopsBound, serves)
  \/ \E target \in LocalTargets, serves \in ServesRange :
       SyncAwaited /\ GetTrustScore(target, MaxHopsBound, serves)
  \/ \E targets \in LocalBatches, serves \in ServesRange :
       SyncAwaited /\ BatchCheck(targets, MaxHopsBound, serves)
  \/ \E serves \in ServesRange : SyncAwaited /\ GetSyncStatus(serves)
  \/ SyncAwaited /\ Clear
  \/ QueryReturn

SpecLocal == InitLocal /\ [][NextLocal]_vars

\* a WoT object in a browser; myPubkey and fallback.myPubkey are given or not
MyPubkeyOptions == {Null, Pk("A"), Pk("zz")}
FallbackOptions == {Null, Pk("b")}
Windows ==
  {Window(present, getMyPubkey, getPublicKey) :
     present \in BOOLEAN, getMyPubkey \in {"ok", "throws"},
     getPublicKey \in {"absent", "ok", "throws"}}
WoTTargets == {"t", "zz"}

InitWoT ==
  /\ storage = EmptyStorage
  /\ upstream = NoUpstream
  /\ poolConnected = FALSE
  /\ sy = Idle
  /\ syncLog = <<>>
  /\ now = 1
  /\ qres = NoQuery
  /\ relay = [r \in Relays |-> NewRelayConnection]
  /\ poolCalls = <<>>
  /\ merged = NoMerge
  /\ \E myPubkeyOption \in MyPubkeyOptions, fallbackMyPubkey \in FallbackOptions :
       wot = WoTconstructor(myPubkeyOption, fallbackMyPubkey)
  /\ window \in Windows
  /\ hook = NoHook

NextWoT ==
  \/ WoTGetMyPubkey
  \/ \E target \in WoTTargets, answer \in OracleAnswers :
       WoTGetDistance(target, answer)
  \/ \E target \in WoTTargets, answer \in OracleAnswers :
       WoTGetDetails(target, answer)
  \/ \E targets \in {<<>>, <<"t">>, <<"t", "A">>, <<"zz">>},
        answer \in OracleAnswers :
       WoTBatchCheck(targets, answer)
  \/ \E win \in Windows : WindowChange(win)
  \/ QueryReturn

SpecWoT == InitWoT /\ [][NextWoT]_vars

\* lists a caller filters: empty, malformed entries only, mixed, well-formed
FilterLists == {<<>>, <<"zz">>, <<"zz", "">>, <<"t", "zz">>, <<"t", "A", "t">>}

NextFilter ==
  \/ \E pubkeys \in FilterLists, answer \in OracleAnswers :
       WoTFilterByWoT(pubkeys, answer)
  \/ \E win \in Windows : WindowChange(win)
  \/ QueryReturn

\* filterByWoT calls on a WoT object, in and outside a browser
SpecFilter == InitWoT /\ [][NextFilter]_vars

\* one RelayConnection used directly by its callers
DirectRelay == 1

NextConnect ==
  \/ \E throws \in BOOLEAN : ConnectCall(DirectRelay, throws)
  \/ \E i \in 1..MaxCalls : CallResume(DirectRelay, i)
  \/ \E i \in 1..MaxCalls : CallReject(DirectRelay, i)
  \/ CloseCall(DirectRelay)
  \/ \E s \in 1..MaxCalls : SocketOpen(DirectRelay, s)
  \/ \E s \in 1..MaxCalls : SocketError(DirectRelay, s)
  \/ \E s \in 1..MaxCalls : SocketClose(DirectRelay, s)

NextRelay ==
  \/ \E throws \in BOOLEAN : FetchCall(DirectRelay, <<"a">>, throws)
  \/ \E i \in 1..MaxFetches : CallResume(DirectRelay, i)
  \/ \E i \in 1..MaxFetches : CallReject(DirectRelay, i)
  \/ CloseCall(DirectRelay)
  \/ \E s \in 1..MaxFetches : SocketOpen(DirectRelay, s)
  \/ \E s \in 1..MaxFetches : SocketError(DirectRelay, s)
  \/ \E s \in 1..MaxFetches : SocketClose(DirectRelay, s)
  \/ \E s \in 1..MaxFetches, data \in Frames : OnMessage(DirectRelay, s, data)
  \/ \E i \in 1..MaxFetches : Timeout(DirectRelay, i)

InitRelay ==
  /\ InitCommon
  /\ storage = EmptyStorage
  /\ upstream = NoUpstream

\* connect() and close() calls on one connection
SpecConnect == InitRelay /\ [][NextConnect]_vars

\* fetchContactLists() and close() calls on one connection
SpecRelay == InitRelay /\ [][NextRelay]_vars

NextScore ==
  \/ \E result \in ScoreResults, scoring \in ScoreConfigs :
       ScoreCall(result, scoring)
  \/ QueryReturn

\* calculateTrustScore applied to query results and weight configurations
SpecScore == InitRelay /\ [][NextScore]_vars

\* the frames a relay sends to the connections of a pool
PoolFrames ==
  {[json |-> "array", type |-> "EVENT", subId |-> 1, event |-> e] : e \in FrameEvents}
  \cup {[json |-> "array", type |-> "EOSE", subId |-> 1, event |-> Missing]}

\* the calls and sockets of one connection of a pool used for one call
PoolSlots == {1, 2}

NextPool ==
  \/ \E throws \in [Relays -> BOOLEAN] : PoolCall("connect", <<>>, throws)
  \/ \E throws \in [Relays -> BOOLEAN] : PoolCall("fetch", <<"a", "b">>, throws)
  \/ PoolConnectReject(1)
  \/ PoolConnected(1)
  \/ PoolConnectReturn(1)
  \/ \E throws \in [Relays -> BOOLEAN] : PoolFetchIssue(1, throws)
  \/ PoolFetchSettle(1)
  \/ \E r \in Relays, i \in PoolSlots : CallResume(r, i)
  \/ \E r \in Relays, i \in PoolSlots : CallReject(r, i)
  \/ \E r \in Relays, s \in PoolSlots : SocketOpen(r, s)
  \/ \E r \in Relays, s \in PoolSlots : SocketError(r, s)
  \/ \E r \in Relays, s \in PoolSlots : SocketClose(r, s)
  \/ \E r \in Relays, s \in PoolSlots, data \in PoolFrames : OnMessage(r, s, data)
  \/ \E r \in Relays, i \in PoolSlots : Timeout(r, i)

\* a connection whose first connect() has resolved and returned
ConnectionOpened ==
  onopen([connect(NewRelayConnection, FALSE).c EXCEPT
            !.sockets[1].readyState = "OPEN"], 1)

\* a connection whose first connect() has rejected: error and close event
ConnectionFailed ==
  LET c == connect(NewRelayConnection, FALSE).c
      errored == onerror([c EXCEPT !.sockets[1].readyState = "CLOSED",
                                   !.sockets[1].errorFired = TRUE], 1)
  IN onclose([errored EXCEPT !.sockets[1].closeFired = TRUE], 1)

\* a new pool, or a pool after a connect() that has resolved
InitPool ==
  /\ wot = NoWoT
  /\ window = Null
  /\ hook = NoHook
  /\ sy = Idle
  /\ syncLog = <<>>
  /\ now = 1
  /\ qres = NoQuery
  /\ poolCalls = <<>>
  /\ merged = NoMerge
  /\ storage = EmptyStorage
  /\ upstream = NoUpstream
  /\ \/ /\ poolConnected = FALSE
        /\ relay = [r \in Relays |-> NewRelayConnection]
     \/ /\ poolConnected = TRUE
        /\ relay \in [Relays -> {ConnectionOpened, ConnectionFailed}]
        /\ \E r \in Relays : relay[r] = ConnectionOpened

\* one call on a RelayPool over the connections
SpecPool == InitPool /\ [][NextPool]_vars

\* a world in which only the root has published a contact list
RootOnly == [NoUpstream EXCEPT !["r"] = Event("r", 1, PTags(<<"a", "b">>))]

\* the frames the relays send for the subscription of the sync: the
\* published contact lists and EOSE
UpstreamFrames ==
  {[json |-> "array", type |-> "EVENT", subId |-> 1, event |-> upstream[p]] :
     p \in {q \in Ids : upstream[q] # NoEvent}}
  \cup {[json |-> "array", type |-> "EOSE", subId |-> 1, event |-> Missing]}

NextSyncPool ==
  \/ SyncStartFirst
  \/ SyncRound
  \/ \E throws \in [Relays -> BOOLEAN] : SyncPoolFetch(throws)
  \/ SyncPoolRejected
  \/ SyncPoolResolved
  \/ SyncFinish(Unlimited)
  \/ PoolConnectReject(1)
  \/ PoolConnected(1)
  \/ \E throws \in [Relays -> BOOLEAN] : PoolFetchIssue(1, throws)
  \/ PoolFetchSettle(1)
  \/ \E r \in Relays, i \in PoolSlots : CallResume(r, i)
  \/ \E r \in Relays, i \in PoolSlots : CallReject(r, i)
  \/ \E r \in Relays, s \in PoolSlots : SocketOpen(r, s)
  \/ \E r \in Relays, s \in PoolSlots : SocketError(r, s)
  \/ \E r \in Relays, s \in PoolSlots : SocketClose(r, s)
  \/ \E r \in Relays, s \in PoolSlots, data \in UpstreamFrames : OnMessage(r, s, data)
  \/ \E r \in Relays, i \in PoolSlots : Timeout(r, i)

InitSyncPool ==
  /\ InitCommon
  /\ storage = EmptyStorage
  /\ upstream \in {RootOnly, NoUpstream}

\* the first sync of depth 1 of a new LocalWoT, over the pool and its
\* connections
SpecSyncPool == InitSyncPool /\ [][NextSyncPool]_vars

\* the contact lists relays return to a merge: two identities, two
\* timestamps, and two different lists of a with the same timestamp
MergeInputs ==
  {Event(p, t, <<>>) : p \in {"a", "b"}, t \in {1, 2}}
  \cup {Event("a", 1, PTags(<<"b">>))}

\* the arrays of at most MaxResults events
ResultArrays ==
  UNION {[1..n -> MergeInputs] : n \in 0..MaxResults}

NextMerge ==
  \/ \E allEvents \in [1..Cardinality(Relays) -> ResultArrays] : Merge(allEvents)
  \/ MergeReturn

\* the merge of RelayPool.fetchContactLists over every pair of results
SpecMerge == InitRelay /\ [][NextMerge]_vars

\* one turn of the event loop on work that is due: a continuation that is
\* ready, or the callback of an armed timer
EventLoopTurn ==
  \E i \in 1..MaxFetches :
    \/ CallResume(DirectRelay, i)
    \/ CallReject(DirectRelay, i)
    \/ Timeout(DirectRelay, i)

\* the event loop does not stop while a continuation is ready or a timer
\* is armed
SpecRelayFair == SpecRelay /\ WF_vars(EventLoopTurn)

(***************************************************************************)
(* Reference notions the properties are stated with: the directed graph of *)
(* the persisted follow lists, and the upstream graph                      *)
(***************************************************************************)
\* the identities p's persisted follow list names (none when it has no list)
Succ(st, p) ==
  IF st[FollowsKey(p)] = Absent THEN {}
  ELSE Range(st[FollowsKey(p)].text)

RECURSIVE ReachWithin(_, _, _)
\* the identities at most k follow edges away from `from`
ReachWithin(st, from, k) ==
  IF k = 0 THEN {from}
  ELSE LET R == ReachWithin(st, from, k - 1)
       IN R \cup UNION {Succ(st, p) : p \in R}

\* length of a shortest directed path if it is at most bound, else -1
ShortestWithin(st, from, to, bound) ==
  IF to \notin ReachWithin(st, from, bound) THEN -1
  ELSE CHOOSE k \in 0..bound :
         /\ to \in ReachWithin(st, from, k)
         /\ \A j \in 0..(k - 1) : to \notin ReachWithin(st, from, j)

\* number of occurrences of `to` in p's persisted list
Multiplicity(st, p, to) ==
  IF st[FollowsKey(p)] = Absent THEN 0
  ELSE Cardinality({i \in 1..Len(st[FollowsKey(p)].text) :
                      st[FollowsKey(p)].text[i] = to})

RECURSIVE SumOver(_, _, _, _, _)
RECURSIVE Walks(_, _, _, _)
\* number of directed walks of length k from `from` to v
Walks(st, from, v, k) ==
  IF k = 0 THEN (IF v = from THEN 1 ELSE 0)
  ELSE SumOver(st, from, v, k, {p \in Ids : v \in Succ(st, p)})

SumOver(st, from, v, k, preds) ==
  IF preds = {} THEN 0
  ELSE LET p == CHOOSE q \in preds : TRUE
       IN Walks(st, from, p, k - 1) + SumOver(st, from, v, k, preds \ {p})

\* number of distinct shortest paths (walks of the shortest length)
NumShortestPaths(st, from, to) ==
  Walks(st, from, to, ShortestWithin(st, from, to, Cardinality(Ids)))

NoDuplicates(st) ==
  \A p \in Ids, q \in Ids : Multiplicity(st, p, q) <= 1

\* br lies on a shortest path from `from` to `to`
OnShortestPath(st, from, br, to) ==
  LET n == Cardinality(Ids)
      d == ShortestWithin(st, from, to, n)
      d1 == ShortestWithin(st, from, br, n)
      d2 == ShortestWithin(st, br, to, n)
  IN d # -1 /\ d1 # -1 /\ d2 # -1 /\ d1 + d2 = d

\* the follows declared by the event p published upstream
UpFollows(p) ==
  IF upstream[p] = NoEvent THEN {}
  ELSE {normalizePubkey(upstream[p].tags[i][2]) :
          i \in {j \in 1..Len(upstream[p].tags) :
                   /\ upstream[p].tags[j][1] = "p"
                   /\ isValidPubkey(upstream[p].tags[j][2])}}

RECURSIVE UpReach(_)
UpReach(k) ==
  IF k = 0 THEN {myPubkey}
  ELSE UpReach(k - 1) \cup UNION {UpFollows(p) : p \in UpReach(k - 1)}

\* upstream distance from the root, -1 when unreachable
UpDist(p) ==
  LET n == Cardinality(Ids)
  IN IF p \notin UpReach(n) THEN -1
     ELSE CHOOSE k \in 0..n : p \in UpReach(k) /\ \A j \in 0..(k - 1) : p \notin UpReach(j)

QueryOk == qres # NoQuery /\ "throw" \notin DOMAIN qres.out
QFrom == normalizePubkey(qres.from)
QTo == normalizePubkey(qres.target)

Last == syncLog[Len(syncLog)]
Prev == syncLog[Len(syncLog) - 1]

(***************************************************************************)
(* Properties of the query engine (SpecQuery)                              *)
(***************************************************************************)
DistanceCall == QueryOk /\ qres.op \in {"getDistance", "getDistanceBetween"}

\* C1: for a target different from the source, getDistance and
\* getDistanceBetween return the length of a shortest directed path over the
\* persisted follow lists when it is at most maxHops, and null otherwise
C1_DistanceIsShortest ==
  (DistanceCall /\ QFrom # QTo) =>
    LET d == ShortestWithin(storage, QFrom, QTo, qres.maxHops)
    IN IF d = -1 THEN qres.out = Null ELSE qres.out = Num(d)

\* a distance of 3 hops was returned from an identity other than the root,
\* in a snapshot where the target lies on a follow cycle (a -> x -> r -> a)
C1_Witness ==
  /\ DistanceCall
  /\ qres.from = "b" /\ qres.target = "a"
  /\ qres.out = Num(3)
  /\ "x" \in Succ(storage, "a")

\* the snapshot a depth-2 sync persists for R -> A, R -> B, A -> T, B -> T
DiamondScenario ==
  /\ {"a", "b"} \subseteq Succ(storage, "r")
  /\ "t" \notin Succ(storage, "r")
  /\ "t" \in Succ(storage, "a")
  /\ "t" \in Succ(storage, "b")

\* C2: in that scenario getDetails(T, maxHops = 2) returns hops = 2,
\* paths = 2, bridges = {A, B}, and mutual exactly when T's persisted list
\* contains R
C2_DiamondDetails ==
  (DiamondScenario /\ qres.op = "getDetails" /\ qres.target = "t"
     /\ qres.maxHops = 2) =>
    /\ qres.out # Null
    /\ qres.out.hops = 2
    /\ qres.out.paths = 2
    /\ Range(qres.out.bridges) = {"a", "b"}
    /\ qres.out.mutual = ("r" \in Succ(storage, "t"))

DetailsFound ==
  QueryOk /\ qres.op = "getDetails" /\ qres.out # Null

\* C3: without duplicate entries in the follow lists, the paths value of
\* getDetails is the number of distinct shortest paths from the root
C3_PathsCountShortestPaths ==
  (DetailsFound /\ NoDuplicates(storage)) =>
    qres.out.paths = NumShortestPaths(storage, myPubkey, QTo)

\* C4: every bridge returned for a target at 1 or more hops is followed by
\* the root and lies on a shortest path to the target
C4_BridgesOnShortestPaths ==
  (DetailsFound /\ qres.out.hops >= 1) =>
    \A i \in 1..Len(qres.out.bridges) :
      /\ qres.out.bridges[i] \in Succ(storage, myPubkey)
      /\ OnShortestPath(storage, myPubkey, qres.out.bridges[i], QTo)

\* C5: a query from an identity to itself returns distance 0, one path and
\* no bridge, for every snapshot and every maxHops
C5_SelfDistanceZero ==
  /\ \A X \in Ids, h \in HopsRange :
       findShortestPath(storage, X, X, h)
         = [distance |-> 0, paths |-> 1, bridges |-> <<>>]
  /\ (DistanceCall /\ QFrom = QTo) => qres.out = Num(0)
  /\ (QueryOk /\ qres.op = "getDetails" /\ QFrom = QTo) =>
       /\ qres.out # Null
       /\ qres.out.hops = 0 /\ qres.out.paths = 1 /\ qres.out.bridges = <<>>

\* the identity follows itself and is asked with maxHops = 0
C5_Witness ==
  /\ DistanceCall
  /\ qres.from = "x" /\ qres.target = "x" /\ qres.maxHops = 0
  /\ "x" \in Succ(storage, "x")
  /\ qres.out = Num(0)

Unreachable ==
  qres # NoQuery /\ isValidPubkey(qres.from) /\ isValidPubkey(qres.target)
    /\ ShortestWithin(storage, QFrom, QTo, qres.maxHops) = -1

\* C6: for a well-formed target not reachable within maxHops, getDistance,
\* getDistanceBetween and getDetails return null, isInMyWoT returns false,
\* getTrustScore returns 0, and none of them throws
C6_UnreachableIsNotConnected ==
  Unreachable =>
    /\ "throw" \notin DOMAIN qres.out
    /\ qres.op \in {"getDistance", "getDistanceBetween", "getDetails"}
         => qres.out = Null
    /\ qres.op = "isInMyWoT" => qres.out = Bool(FALSE)
    /\ qres.op = "getTrustScore" => qres.out = Num(0)

\* the target is connected at 3 hops but asked with maxHops = 2
C6_Witness ==
  /\ Unreachable
  /\ qres.op = "isInMyWoT"
  /\ qres.maxHops = 2
  /\ ShortestWithin(storage, QFrom, QTo, 3) = 3
  /\ qres.out = Bool(FALSE)

(***************************************************************************)
(* Properties of the sync engine (SpecSync)                                *)
(***************************************************************************)
SyncCompleted == sy.pc = "idle" /\ Len(syncLog) > 0

\* the latest sync started from an empty snapshot and every one of its
\* requests was answered by a relay with the upstream lists
CleanFirstSync == SyncCompleted /\ Last.startEmpty /\ Last.failed = {}

\* C7: after sync(D) from an empty snapshot against sources that answer
\* every request, the identities with a persisted list are exactly those at
\* upstream distance 0..D-1, and getDistance(target, maxHops = D) returns the
\* upstream distance of every target at distance <= D
C7_SyncPopulatesToDepth ==
  CleanFirstSync =>
    /\ Persisted(FollowsSnapshot(storage))
         = {p \in Ids : UpDist(p) # -1 /\ UpDist(p) <= Last.depth - 1}
    /\ \A target \in Ids :
         (UpDist(target) # -1 /\ UpDist(target) <= Last.depth) =>
           getDistance(storage, target, Last.depth) = Num(UpDist(target))

\* a depth-3 sync over R -> {A, B} -> X -> T: a round of two identities, and
\* T found at distance 3
C7_Witness ==
  /\ CleanFirstSync
  /\ Last.depth = 3
  /\ UpDist("t") = 3
  /\ Last.fetched = {"r", "a", "b", "x"}
  /\ getDistance(storage, "t", 3) = Num(3)

\* C8: a batch for which every source timed out or failed leaves the
\* persisted follow lists of its identities as they were
C8_TransientFailureNotPersisted ==
  [][(/\ sy.pc = "fetch"
      /\ sy'.pc \in {"fetch", "loop"}
      /\ sy' # sy
      /\ Range(Head(sy.batches)) \subseteq sy'.failed)
     => \A p \in Range(Head(sy.batches)) :
          storage'[FollowsKey(p)] = storage[FollowsKey(p)]]_vars

\* every identity requested by both of the two latest syncs was answered in
\* the same way in both
SameAnswers ==
  \A p \in Last.fetched \cap Prev.fetched :
    (p \in Last.failed) <=> (p \in Prev.failed)

TwoSyncs == SyncCompleted /\ Len(syncLog) >= 2

\* C9: a second sync with the same depth and the same answers leaves exactly
\* the follow-list keys and values of the first
C9_SyncIdempotent ==
  (TwoSyncs /\ Last.depth = Prev.depth /\ SameAnswers) =>
    Last.snap = Prev.snap

\* two depth-2 syncs that persisted the lists of the root and its follows
C9_Witness ==
  /\ TwoSyncs /\ Last.depth = 2 /\ Prev.depth = 2 /\ SameAnswers
  /\ Last.fetched = {"r", "a", "b"}
  /\ Last.failed = {}
  /\ Succ(storage, "r") = {"a", "b"}
  /\ Last.snap = Prev.snap

\* C10: a sync of greater depth after a sync of smaller depth keeps every
\* follow list the first one persisted
C10_DeeperSyncKeepsLists ==
  (TwoSyncs /\ Prev.depth < Last.depth) =>
    \A p \in RawPubkeys :
      Prev.snap[p] # Absent => Last.snap[p] = Prev.snap[p]

(***************************************************************************)
(* Notions for the connection-level properties                             *)
(***************************************************************************)
\* the promise created with socket k can no longer be settled: resolve and
\* reject are called only by the handlers of that socket, which has
\* delivered its close event, its last
Orphaned(c, k) ==
  c.sockets[k].promise = "pending" /\ c.sockets[k].closeFired

\* call i awaits a promise that can no longer be settled
Stranded(c, i) ==
  /\ c.calls[i].pc = "connect"
  /\ c.calls[i].p # 0
  /\ Orphaned(c, c.calls[i].p)

SomeStranded(c) == \E i \in 1..Len(c.calls) : Stranded(c, i)

\* some socket of the connection has opened
HasConnected(c) ==
  \E k \in 1..Len(c.sockets) : c.sockets[k].promise = "fulfilled"

\* socket k was closed before it opened and no error event came first
SilentlyClosed(c, k) ==
  /\ c.sockets[k].closeFired
  /\ ~c.sockets[k].errorFired
  /\ c.sockets[k].promise # "fulfilled"

\* the sync awaits a pool call that awaits a call that can never settle
SyncStranded ==
  /\ sy.pc = "await"
  /\ \E r \in Relays : SomeStranded(relay[r])

\* C11: when at least one source has connected, a sync call is never left
\* awaiting a fetch that can no longer settle, whatever the sources do
C11_SyncCompletes ==
  (\E r \in Relays : HasConnected(relay[r])) => ~SyncStranded

\* every event some relay returned to the merge
MergeReturned ==
  UNION {Range(merged.allEvents[i]) : i \in 1..Len(merged.allEvents)}

\* C12: the merged result holds at most one event per identity, and for
\* every identity some relay returned an event for, the event it holds is
\* one of those returned for it with the greatest created_at
C12_MergeKeepsLatest ==
  merged # NoMerge =>
    /\ \A i, j \in 1..Len(merged.out) :
         merged.out[i].pubkey = merged.out[j].pubkey => i = j
    /\ Range(merged.out) \subseteq MergeReturned
    /\ \A e \in MergeReturned :
         \E i \in 1..Len(merged.out) :
           /\ merged.out[i].pubkey = e.pubkey
           /\ merged.out[i].created_at >= e.created_at

\* the first relay returned the later list of a and the list of b, the
\* second the earlier list of a: the later one is kept
C12_Witness ==
  /\ merged # NoMerge
  /\ merged.allEvents = << <<Event("a", 2, <<>>), Event("b", 1, <<>>)>>,
                          <<Event("a", 1, <<>>)>> >>
  /\ merged.out = <<Event("a", 2, <<>>), Event("b", 1, <<>>)>>

\* the pool call awaits a call on some relay that can never settle
PoolStranded(call) ==
  /\ call.pc \in {"allSettled", "all"}
  /\ \E r \in Relays : Stranded(relay[r], call.rcalls[r])

\* C13: a pool.connect() call has resolved only if some source has
\* connected, has rejected only if the connect() of every source has
\* rejected, and when some source has connected it is not left awaiting a
\* source that can no longer settle
C13_PoolConnectOutcome ==
  \A i \in 1..Len(poolCalls) :
    poolCalls[i].op = "connect" =>
      /\ poolCalls[i].pc = "resolved" =>
           \E r \in Relays : HasConnected(relay[r])
      /\ poolCalls[i].pc = "rejected" =>
           \A r \in Relays : relay[r].calls[poolCalls[i].rcalls[r]].pc = "rejected"
      /\ (\E r \in Relays : HasConnected(relay[r])) => ~PoolStranded(poolCalls[i])

\* the call a pool call awaits on relay r
RelayCall(call, r) == relay[r].calls[call.rcalls[r]]

\* the events the relays whose call resolved have returned to the pool call
ReturnedToPool(call) ==
  UNION {Range(RelayCall(call, r).result) :
           r \in {q \in Relays : RelayCall(call, q).pc = "resolved"}}

FailedToConnect(c) ==
  /\ c.sockets # <<>>
  /\ \A k \in 1..Len(c.sockets) :
       /\ c.sockets[k].promise # "fulfilled"
       /\ c.sockets[k].errorFired \/ c.sockets[k].closeFired

\* C15: a sync call rejects only when no source has connected and then has
\* written nothing; and once every source has failed to connect and the
\* continuations have run, the sync call has rejected, it is not awaiting
C15_AllSourcesFailRejects ==
  /\ sy.pc = "rejected" =>
       /\ storage = EmptyStorage
       /\ \A r \in Relays : ~HasConnected(relay[r])
  /\ ((\A r \in Relays : FailedToConnect(relay[r])) /\ MicrotasksDone) =>
       sy.pc # "await"

\* the connection has a socket that is open or still connecting
OpenOrConnecting(c) ==
  \E k \in 1..Len(c.sockets) : c.sockets[k].readyState \in {"CONNECTING", "OPEN"}

\* C16: a connect() call made while a socket of the connection is open or
\* a connection attempt is in flight creates no socket
C16_ConnectIdempotent ==
  [][(/\ OpenOrConnecting(relay[DirectRelay])
      /\ Len(relay'[DirectRelay].calls) = Len(relay[DirectRelay].calls) + 1)
     => Len(relay'[DirectRelay].sockets) = Len(relay[DirectRelay].sockets)]_vars

\* C17: no connect() call is left awaiting a promise that can no longer be
\* settled: when its socket has been closed without having opened, the
\* call has been rejected
C17_ConnectSettles ==
  \A i \in 1..Len(relay[DirectRelay].calls) : ~Stranded(relay[DirectRelay], i)

\* the EOSE frame for a subscription id
EoseFrame(subId) ==
  [json |-> "array", type |-> "EOSE", subId |-> subId, event |-> Missing]

\* the buffer of the subscription of call i
BufferOf(c, i) == c.subscriptions[SubIndex(c, c.calls[i].subId)].events

\* call i of the connection has passed "await this.connect()"
Subscribed(c, i) == i <= Len(c.calls) /\ c.calls[i].pc = "sub"

\* call i of the connection has returned its events
Resolved(c, i) == i <= Len(c.calls) /\ c.calls[i].pc = "resolved"

\* call i has returned exactly the events
ResolvedWith(c, i, events) == Resolved(c, i) /\ c.calls[i].result = events

\* while a call is suspended at its deferred its subscription is registered,
\* and both its EOSE frame and the callback of its timer make it return the
\* events buffered so far
FetchResolvable(i) ==
  LET c == Task(relay[DirectRelay])
  IN Subscribed(c, i) =>
       /\ SubIndex(c, c.calls[i].subId) # 0
       /\ ResolvedWith(onTimeout(c, c.calls[i].subId), i, BufferOf(c, i))
       /\ ResolvedWith(onmessage(c, EoseFrame(c.calls[i].subId)), i,
                       BufferOf(c, i))

\* what a step may do to a fetchContactLists call whose connect() has
\* succeeded: the call never rejects, it returns the events buffered before
\* the step that resolves it, and its result does not change afterwards
FetchStep(i) ==
  LET c == relay[DirectRelay]
      d == relay'[DirectRelay]
  IN /\ Subscribed(c, i) =>
          \/ d.calls[i] = c.calls[i]
          \/ ResolvedWith(d, i, BufferOf(c, i))
     /\ Resolved(c, i) => d.calls[i] = c.calls[i]

\* C18: a fetchContactLists call whose connect() has succeeded never
\* rejects and eventually resolves; its EOSE frame and its timeout each
\* resolve it, whichever comes first, with exactly the events buffered for
\* its subscription at that moment, and its result does not change
\* afterwards
C18_FetchResolvesWithBuffer ==
  /\ [](\A i \in 1..MaxFetches : FetchResolvable(i))
  /\ [][\A i \in 1..MaxFetches : FetchStep(i)]_vars
  /\ \A i \in 1..MaxFetches :
       Subscribed(relay[DirectRelay], i) ~> Resolved(relay[DirectRelay], i)

\* the first call has resolved with the one event received before its
\* EOSE or timeout, the second with an empty partial result
C18_Witness ==
  /\ Len(relay[DirectRelay].calls) = 2
  /\ relay[DirectRelay].calls[1].pc = "resolved"
  /\ relay[DirectRelay].calls[1].result = <<Event("a", 1, <<>>)>>
  /\ relay[DirectRelay].calls[2].pc = "resolved"
  /\ relay[DirectRelay].calls[2].result = <<>>
  /\ relay[DirectRelay].calls[2].subId = 2

\* the EVENT frame carrying an event for a subscription id
EventFrame(subId, event) ==
  [json |-> "array", type |-> "EVENT", subId |-> subId, event |-> event]

\* the frame is an EVENT frame with a kind-3 event for a registered
\* subscription
Buffered(c, f) ==
  /\ f.json = "array"
  /\ f.type = "EVENT"
  /\ SubIndex(c, f.subId) # 0
  /\ "kind" \in DOMAIN f.event
  /\ f.event.kind = 3

\* the frame is the EOSE frame of a registered subscription
Ends(c, f) == f.json = "array" /\ f.type = "EOSE" /\ SubIndex(c, f.subId) # 0

\* what onmessage does with each frame a socket can deliver: a kind-3 event
\* for a registered id is appended to that subscription's buffer alone, an
\* EOSE frame for a registered id touches no other subscription, and every
\* other frame changes no buffer and resolves no call
FrameEffect(f) ==
  LET c == Task(relay[DirectRelay])
      d == onmessage(c, f)
      i == SubIndex(c, f.subId)
  IN /\ Buffered(c, f) =>
          /\ d.subscriptions =
               [c.subscriptions EXCEPT ![i].events = Append(@, f.event)]
          /\ d.calls = c.calls
     /\ Ends(c, f) =>
          /\ d.subscriptions = RemoveAt(c.subscriptions, i)
          /\ \A k \in 1..Len(c.calls) :
               c.calls[k].subId # f.subId => d.calls[k] = c.calls[k]
     /\ (~Buffered(c, f) /\ ~Ends(c, f)) =>
          /\ d.subscriptions = c.subscriptions
          /\ d.calls = c.calls

\* the buffer of subscription n, or Missing when n is not registered
EventsOf(c, n) ==
  IF SubIndex(c, n) = 0 THEN Missing
  ELSE [events |-> c.subscriptions[SubIndex(c, n)].events]

\* a registered subscription's buffer changes only by one kind-3 event of an
\* EVENT frame that carries its id, and a call returns its own buffer
BufferStep(n) ==
  LET c == relay[DirectRelay]
      d == relay'[DirectRelay]
  IN /\ (SubIndex(c, n) # 0 /\ SubIndex(d, n) # 0
          /\ EventsOf(d, n) # EventsOf(c, n)) =>
          \E s \in 1..MaxFetches, e \in FrameEvents :
            /\ OnMessage(DirectRelay, s, EventFrame(n, e))
            /\ e.kind = 3
            /\ EventsOf(d, n).events = Append(EventsOf(c, n).events, e)
     /\ \A i \in 1..Len(c.calls) :
          (c.calls[i].subId = n /\ Subscribed(c, i) /\ ~Subscribed(d, i)) =>
            ResolvedWith(d, i, EventsOf(c, n).events)

\* C19: with concurrent subscriptions on one connection, a call's result
\* holds only kind-3 events that arrived in EVENT frames carrying its own
\* subscription id; frames for unknown or finished ids, frames of other
\* types and malformed frames change no buffer and resolve no call
C19_FramesRoutedBySubscription ==
  /\ [](\A f \in Frames : FrameEffect(f))
  /\ [][\A n \in FrameSubIds : BufferStep(n)]_vars

\* two subscriptions are registered at once and the event that arrived for
\* the second is in its buffer alone
C19_Witness ==
  /\ Len(relay[DirectRelay].subscriptions) = 2
  /\ EventsOf(relay[DirectRelay], 1) = [events |-> <<>>]
  /\ EventsOf(relay[DirectRelay], 2) = [events |-> <<Event("b", 1, <<>>)>>]

\* the call whose connect() created socket k: the first that awaits its
\* promise
Creator(c, k) ==
  CHOOSE i \in 1..Len(c.calls) :
    /\ c.calls[i].p = k
    /\ \A j \in 1..(i - 1) : c.calls[j].p # k

\* what close() does when it returns: every subscribed call has returned
\* its buffer, no subscription is registered and the socket is closing
CloseStep ==
  LET c == relay[DirectRelay]
      d == relay'[DirectRelay]
  IN CloseCall(DirectRelay) =>
       /\ \A i \in 1..Len(c.calls) :
            Subscribed(c, i) => ResolvedWith(d, i, BufferOf(c, i))
       /\ d.subscriptions = <<>>
       /\ d.ws = 0
       /\ c.ws # 0 => d.sockets[c.ws].readyState \in {"CLOSING", "CLOSED"}

\* when the close event arrives for socket k that close() closed while it
\* was connecting, the call that opened it is not left on a promise that
\* nothing can settle
CloseEventStep(k) ==
  LET c == relay[DirectRelay]
      d == relay'[DirectRelay]
  IN (/\ k <= Len(c.sockets)
      /\ c.sockets[k].readyState = "CLOSING"
      /\ SocketClose(DirectRelay, k))
     => ~Stranded(d, Creator(c, k))

\* C20: close() resolves every subscribed call with the events collected
\* so far, leaves no subscription registered and closes the socket, and no
\* call issued before close(), one awaiting connect() included, stays
\* pending forever
C20_CloseSettlesCalls ==
  [][CloseStep /\ \A k \in 1..MaxFetches : CloseEventStep(k)]_vars

\* the frames of one type for one subscription id that the running task
\* has handed to the socket
SentFor(c, type, n) ==
  {j \in 1..Len(c.sent) :
     c.sent[j].message.type = type /\ c.sent[j].message.subId = n}

\* a step that registers subscription n sends one REQ frame for it, and n
\* was never issued before on the connection
OpenStep(n) ==
  LET c == relay[DirectRelay]
      d == relay'[DirectRelay]
  IN (SubIndex(c, n) = 0 /\ SubIndex(d, n) # 0) =>
       /\ n > c.subIdCounter
       /\ Cardinality(SentFor(d, "REQ", n)) = 1

\* a step that ends subscription n sends one CLOSE frame for it, and no
\* other step sends a CLOSE or a REQ frame for n
EndStep(n) ==
  LET c == relay[DirectRelay]
      d == relay'[DirectRelay]
  IN /\ (SubIndex(c, n) # 0 /\ SubIndex(d, n) = 0) =>
          Cardinality(SentFor(d, "CLOSE", n)) = 1
     /\ ~(SubIndex(c, n) # 0 /\ SubIndex(d, n) = 0) =>
          SentFor(d, "CLOSE", n) = {}
     /\ ~(SubIndex(c, n) = 0 /\ SubIndex(d, n) # 0) =>
          SentFor(d, "REQ", n) = {}

\* C21: every subscription opened by fetchContactLists sends a REQ frame
\* with an id never used before on the connection, and when it ends (EOSE,
\* timeout or close()) exactly one CLOSE frame for that id is sent, after
\* the REQ; no subscription ends without its CLOSE frame being sent
C21_ReqThenOneClose ==
  [][\A n \in FrameSubIds : OpenStep(n) /\ EndStep(n)]_vars

(***************************************************************************)
(* Properties of the trust score (SpecScore)                               *)
(***************************************************************************)
Scored == qres # NoQuery /\ qres.op = "calculateTrustScore"

\* an exact value clamped into [0, 1], in units of 1 / ScoreDen
Clamp(n) == IF n < 0 THEN 0 ELSE IF n > ScoreDen THEN ScoreDen ELSE n

\* min over exact values
Least(m, n) == IF m <= n THEN m ELSE n

\* base * distanceWeight + bonus, in units of 1 / ScoreDen
AdditiveScore(result, scoring) ==
  LET base == 60 \div (result.hops + 1)
      weight == distanceWeight(result.hops, scoring.distanceWeights)
      bonus == (IF result.mutual THEN scoring.mutualBonus ELSE 0)
               + Least(scoring.pathBonus * (result.paths - 1),
                       scoring.maxPathBonus)
  IN base * weight * 100 + bonus * 60 * 100

\* C22: calculateTrustScore returns clamp(base * distanceWeight + bonus,
\* 0, 1) with base = 1 / (hops + 1) and bonus = (mutual ? mutualBonus : 0)
\* + min(pathBonus * (paths - 1), maxPathBonus): the bonus is added to the
\* weighted base
C22_ScoreIsAdditive ==
  Scored => qres.out = Num(Clamp(AdditiveScore(qres.result, qres.scoring)))

\* C23: for every query result and every finite weight configuration,
\* bonuses and weights large or negative enough to push the raw value out of
\* the range included, calculateTrustScore returns a value in [0, 1]
C23_ScoreInUnitRange ==
  Scored => (IsNum(qres.out) /\ qres.out.num >= 0 /\ qres.out.num <= ScoreDen)

\* the weight calculateTrustScore multiplies the base score by
UsedWeight == distanceWeight(qres.result.hops, qres.scoring.distanceWeights)

\* the hop counts the configuration has a weight for
Configured == DOMAIN qres.scoring.distanceWeights

\* C24: the distance weight is the one configured for exactly the given
\* hop count when there is one, the one of the largest configured hop count
\* when the hop count exceeds every configured key, and never a value that
\* the supplied configuration does not contain
C24_WeightComesFromConfig ==
  Scored =>
    /\ qres.result.hops \in Configured =>
         UsedWeight = qres.scoring.distanceWeights[qres.result.hops]
    /\ (Configured # {} /\ \A h \in Configured : qres.result.hops > h) =>
         UsedWeight = qres.scoring.distanceWeights[
                        CHOOSE m \in Configured : \A h \in Configured : h <= m]
    /\ \E h \in Configured : UsedWeight = qres.scoring.distanceWeights[h]

(***************************************************************************)
(* Properties of LocalWoT over a storage adapter that may fail (SpecLocal) *)
(***************************************************************************)
\* a query of LocalWoT has settled
Queried == qres # NoQuery /\ qres.op # "calculateTrustScore"

\* a call of storage.get that the query issued has failed
GetFailed == qres.serves # Unlimited /\ qres.reads > qres.serves.num

\* the step in which a sync call rejects with the error of a storage.set
SyncRejects == sy.pc # "idle" /\ sy' = Rejected("StorageError")

\* the sync metadata of the storage
Metadata(st) == <<st[SYNC_DEPTH], st[SYNC_TIME]>>

\* C25: a sync call that a failed storage.set rejects has written no sync
\* metadata, and a query during which a storage.get failed rejects with the
\* storage error instead of returning a value or null
C25_StorageFailureNotSwallowed ==
  /\ [](Queried /\ GetFailed => qres.out = Throw("StorageError"))
  /\ [][SyncRejects => Metadata(storage') = Metadata(storage)]_vars

\* the query was given a malformed identity, or batchCheck an empty list or
\* a list that holds a malformed identity
MalformedInput ==
  CASE qres.op = "batchCheck" ->
         qres.target = <<>>
         \/ \E i \in 1..Len(qres.target) : validatePubkeyThrows(qres.target[i])
    [] qres.op = "getDistanceBetween" ->
         validatePubkeyThrows(qres.from) \/ validatePubkeyThrows(qres.target)
    [] qres.op = "getSyncStatus" -> FALSE
    [] OTHER -> validatePubkeyThrows(qres.target)

\* C26: every query entry point given a malformed identity, and batchCheck
\* given an empty list or a list with a malformed identity at any position,
\* raises ValidationError without having issued a storage read
C26_ValidationBeforeReads ==
  Queried /\ MalformedInput =>
    qres.out = Throw("ValidationError") /\ qres.reads = 0

\* the step in which a query of LocalWoT is called and settles
QueryStep == qres = NoQuery /\ qres' # NoQuery /\ qres'.op # "calculateTrustScore"

\* C27: no query of LocalWoT (getDistance, getDistanceBetween, getDetails,
\* getTrustScore, isInMyWoT, batchCheck, getSyncStatus) changes a storage
\* key, connects the relay pool, issues a pool call or sends a frame
C27_QueriesChangeNothing ==
  [][QueryStep => /\ storage' = storage
                  /\ poolConnected' = poolConnected
                  /\ poolCalls' = poolCalls
                  /\ relay' = relay
                  /\ sy' = sy]_vars

\* a query that read the storage has settled over a synced graph
C27_Witness ==
  /\ Queried /\ qres.reads > 1
  /\ storage[FollowsKey(myPubkey)] # Absent
  /\ storage[SYNC_TIME] # Absent
  /\ poolConnected

\* the identities a stored follow list holds
StoredFollows(st, p) == Range(JSONparse(st[FollowsKey(p)]))

\* every persisted follow list is stored under a lowercase identity and
\* holds lowercase identities only
KeysCanonical ==
  \A p \in RawPubkeys :
    storage[FollowsKey(p)] # Absent =>
      /\ p = normalizePubkey(p)
      /\ \A f \in StoredFollows(storage, p) : f = normalizePubkey(f)

\* the targets of a batch in lowercase
Lowercase(targets) == [i \in 1..Len(targets) |-> normalizePubkey(targets[i])]

\* what the query q settles with when its identities are given in lowercase
LowercaseAnswer(q, st) ==
  CASE q.op = "getDistance" ->
         getDistance(st, normalizePubkey(q.target), q.maxHops)
    [] q.op = "getDistanceBetween" ->
         getDistanceBetween(st, normalizePubkey(q.from),
                            normalizePubkey(q.target), q.maxHops)
    [] q.op = "getDetails" ->
         getDetails(st, normalizePubkey(q.target), q.maxHops)
    [] q.op = "isInMyWoT" ->
         isInMyWoT(st, normalizePubkey(q.target), q.maxHops)
    [] q.op = "getTrustScore" ->
         getTrustScore(st, normalizePubkey(q.target), q.maxHops)
    [] q.op = "batchCheck" ->
         batchCheck(st, Lowercase(q.target), q.maxHops).out
    [] q.op = "getSyncStatus" -> getSyncStatus(st).out

\* C28: every key follows:<identity> of the storage and every identity in a
\* persisted follow list is in lowercase, whatever case the event authors
\* and tags use, and a query for an identity in upper case settles as the
\* query for its lowercase form does
C28_IdentitiesCanonical ==
  /\ []KeysCanonical
  /\ [][QueryStep =>
          qres'.out = LowercaseAnswer(qres', Failing(storage, qres'.serves))]_vars

\* the step writes sync metadata
MetadataWritten ==
  Metadata(storage') # Metadata(storage) /\ Metadata(storage') # <<Absent, Absent>>

\* the step in which a sync call completes
SyncCompletes == sy.pc = "finish" /\ sy' = Idle

\* the step in which clear() empties the storage
Cleared == storage' = EmptyStorage /\ storage # EmptyStorage

\* C29: sync metadata is written only by the step that completes a sync
\* call, and is then the number of rounds that walk executed and the time of
\* completion; getSyncStatus() returns null while no sync has completed and
\* again after clear()
C29_MetadataOnCompletion ==
  /\ [][MetadataWritten =>
          /\ SyncCompletes
          /\ storage'[SYNC_DEPTH] = JSONstringify(sy.d)
          /\ storage'[SYNC_TIME] = JSONstringify(now)]_vars
  /\ [][(QueryStep /\ qres'.op = "getSyncStatus" /\ syncLog = <<>>
          /\ qres'.serves = Unlimited) => qres'.out = Null]_vars
  /\ [][Cleared => getSyncStatus(storage').out = Null]_vars

(***************************************************************************)
(* Properties of the WoT object (SpecWoT)                                  *)
(***************************************************************************)
\* a method of the WoT object has settled
WoTQueried == qres # NoQuery /\ "present" \in DOMAIN qres

\* the pubkeys the call resolved with or sent to the oracle
UsedPubkeys ==
  (IF qres.op = "WoT.getMyPubkey" /\ "pk" \in DOMAIN qres.out
   THEN {qres.out} ELSE {})
  \cup {Pk(qres.requests[i].myPubkey) : i \in 1..Len(qres.requests)}

\* C30: getMyPubkey() and the oracle requests of getDistance, getDetails
\* and batchCheck use the pubkey of the extension only when window.nostr.wot
\* is present at the call, and the configured pubkey whenever it is not
C30_PubkeyFollowsExtension ==
  WoTQueried =>
    \A p \in UsedPubkeys :
      IF qres.present THEN p = Pk(ExtensionPubkey) \/ p = wot.fallbackPubkey
      ELSE p = wot.fallbackPubkey

(***************************************************************************)
(* Properties of one sync call: requests and writes (SpecWide)             *)
(***************************************************************************)
\* a sync call is running or at its end
InSync == "requests" \in DOMAIN sy

RECURSIVE Concat(_)
\* the author lists of the fetches, one after the other
Concat(lists) == IF lists = <<>> THEN <<>> ELSE Head(lists) \o Concat(Tail(lists))

NoDuplicate(seq) == \A i, j \in 1..Len(seq) : seq[i] = seq[j] => i = j

\* C31: within one sync call every identity is in the author list of at
\* most one fetch, once, and setFollows is called for it at most once,
\* whatever cycles, self-follows and shared follows the upstream graph has
C31_FetchedAndWrittenOnce ==
  InSync => NoDuplicate(Concat(sy.requests)) /\ NoDuplicate(sy.written)

\* a sync has walked, with a round of several batches, a graph in which x
\* is followed by the root, a and b, a follows itself and x follows the root
C31_Witness ==
  /\ InSync /\ sy.pc = "finish"
  /\ Range(sy.written) = {"r", "a", "b", "x", "t"}
  /\ Len(sy.requests) > sy.d
  /\ Includes(extractFollows(upstream["a"]), "x")
  /\ Includes(extractFollows(upstream["a"]), "a")
  /\ Includes(extractFollows(upstream["b"]), "x")
  /\ Includes(extractFollows(upstream["x"]), "r")

\* the step in which sync has processed the batch it fetched
BatchDone == InSync /\ sy.pc = "fetch" /\ sy' # sy /\ sy'.pc \in {"fetch", "loop"}

\* C32: when sync has processed a batch, every identity of the batch is
\* marked visited and has a follow list persisted, and an identity for which
\* the pool returned no contact list (none is published, or no relay
\* answered) has the explicit empty list, which getFollows returns as []
\* and not as null
C32_MissingStoredEmpty ==
  [][BatchDone =>
       \A p \in Range(Head(sy.batches)) :
         /\ p \in sy'.visited
         /\ getFollows(storage', p) # Null
         /\ (upstream[p] = NoEvent \/ p \in sy'.failed) =>
              getFollows(storage', p) = [list |-> <<>>]]_vars

\* t has published nothing and was fetched: its list is stored empty, while
\* x, never fetched, has no list
C32_Witness ==
  /\ InSync /\ "t" \in sy.fetched
  /\ upstream["t"] = NoEvent
  /\ getFollows(storage, "t") = [list |-> <<>>]
  /\ getFollows(storage, "x") = Null

\* the reports issued after a batch (the one that opens a round has
\* processed = 0, and no batch is empty)
AfterBatch(r) == r.processed > 0

\* a fetch is in flight, or the next one is about to be issued
Fetching == InSync /\ sy.pc \in {"fetch", "await"}

\* C33: the rounds of one sync run are sequential, and the progress reports
\* follow them: while a fetch of round d+1 is in flight every request issued
\* before it is persisted and every earlier round has reported
\* processed = total; currentDepth never decreases, totalDepth is the depth
\* option, processed never exceeds total and never decreases within a
\* round, there is one report after each batch, and the last report of a
\* round has processed = total
C33_RoundsAndProgressOrdered ==
  InSync =>
    LET pr == sy.progress
    IN /\ \A i \in 1..Len(pr) :
            /\ pr[i].totalDepth = sy.depth
            /\ pr[i].processed <= pr[i].total
            /\ pr[i].currentDepth \in 1..sy.depth
       /\ \A i \in 1..(Len(pr) - 1) :
            /\ pr[i].currentDepth <= pr[i + 1].currentDepth
            /\ pr[i].currentDepth = pr[i + 1].currentDepth =>
                 /\ pr[i].processed <= pr[i + 1].processed
                 /\ pr[i].total = pr[i + 1].total
            /\ pr[i].currentDepth < pr[i + 1].currentDepth =>
                 /\ pr[i].processed = pr[i].total
                 /\ pr[i + 1].processed = 0
       /\ Len(SelectSeq(pr, AfterBatch)) = Len(sy.requests)
       /\ (sy.pc \in {"loop", "finish"} /\ pr # <<>>) =>
            pr[Len(pr)].processed = pr[Len(pr)].total
       /\ Fetching =>
            /\ pr[Len(pr)].currentDepth = sy.d + 1
            /\ \A p \in Range(Concat(sy.requests)) :
                 p \in sy.visited /\ getFollows(storage, p) # Null
            /\ \A b \in Range(sy.batches) : Range(b) \cap sy.visited = {}

\* the second round had two batches and the third round has reported
C33_Witness ==
  /\ InSync /\ sy.pc = "finish" /\ sy.depth = 3
  /\ \E i \in 1..(Len(sy.progress) - 2) :
       /\ sy.progress[i] = Report(1, 3, BatchSize, BatchSize + 1)
       /\ sy.progress[i + 1] = Report(1, 3, BatchSize + 1, BatchSize + 1)
       /\ sy.progress[i + 2].currentDepth = 3

(***************************************************************************)
(* The batches of a round processed in another order                       *)
(***************************************************************************)
AllAnswer == [i \in Relays |-> "eose"]

RECURSIVE RunBatches(_, _, _, _, _)
\* "for (const batch of batches)" over the given batches, every relay
\* answering each request
RunBatches(acc, batches, up, d, depth) ==
  IF batches = <<>> THEN acc
  ELSE LET batch == Head(batches)
           events == poolFetchContactLists(up, AllAnswer, batch)
           done == SyncProcessBatch(acc.st, acc.visited, acc.nextLayer,
                                    batch, events, d, depth)
       IN RunBatches(done, Tail(batches), up, d, depth)

RECURSIVE RunRounds(_, _, _, _, _, _, _)
\* "for (let d = 0; d < depth; d++)" from round d on; the result holds the
\* storage and the identities the rounds requested
RunRounds(st, visited, currentLayer, d, depth, up, fetched) ==
  LET toFetch == FilterNotIn(currentLayer, visited)
  IN IF d >= depth \/ toFetch = <<>> THEN [st |-> st, fetched |-> fetched]
     ELSE LET acc == RunBatches([st |-> st, visited |-> visited,
                                 nextLayer |-> <<>>],
                                chunk(toFetch, BatchSize), up, d, depth)
          IN RunRounds(acc.st, acc.visited, acc.nextLayer, d + 1, depth, up,
                       fetched \cup Range(toFetch))

\* the rest of the sync when the current round processes "batches"
RestOfSync(batches) ==
  LET acc == RunBatches([st |-> Failing(storage, Unlimited),
                         visited |-> sy.visited, nextLayer |-> <<>>],
                        batches, upstream, sy.d, sy.depth)
  IN RunRounds(acc.st, acc.visited, acc.nextLayer, sy.d + 1, sy.depth,
               upstream, {})

PermutedBatches(batches) ==
  {[i \in 1..Len(batches) |-> batches[f[i]]] :
     f \in Permutations(1..Len(batches))}

\* a round has been partitioned and none of its batches is processed yet
RoundStarts == InSync /\ sy.pc = "fetch" /\ sy.processed = 0

\* the sources answer each identity on its own: a request for p yields the
\* list p signed, or nothing
AnswersIndependent ==
  \A p \in Ids : upstream[p] # NoEvent => upstream[p].pubkey = p

\* C34: when the sources answer each identity independently, whatever the
\* order in which the batches of a round are processed, the sync ends with
\* the same persisted snapshot and has fetched the same identities in the
\* later rounds
C34_BatchOrderIrrelevant ==
  (RoundStarts /\ AnswersIndependent) =>
    \A permuted \in PermutedBatches(sy.batches) :
      RestOfSync(permuted) = RestOfSync(sy.batches)

\* a round of two batches in which an identity of the first batch lists one
\* of the second
C34_Witness ==
  /\ RoundStarts /\ AnswersIndependent
  /\ Len(sy.batches) = 2 /\ sy.depth = MaxDepth
  /\ \E p \in Range(sy.batches[1]) :
       upstream[p] # NoEvent /\ Includes(extractFollows(upstream[p]), "x")
  /\ "x" \in Range(sy.batches[2])

(***************************************************************************)
(* What sync persists when relays return events nobody asked for (SpecForeign) *)
(***************************************************************************)
\* the members of the frontiers of the rounds so far
Frontier == Range(Concat(sy.requests)) \cup Range(Concat(sy.batches))

\* C37: every identity whose follow list the sync has persisted was in the
\* frontier of one of its rounds: it is the root, or an identity fetched
\* before lists it in its persisted follow list
C37_PersistedWereFrontier ==
  InSync =>
    \A p \in Range(sy.written) :
      /\ p \in Frontier
      /\ \/ p = myPubkey
         \/ \E q \in sy.fetched :
              /\ getFollows(storage, q) # Null
              /\ Includes(getFollows(storage, q).list, p)

(***************************************************************************)
(* The traversal of findShortestPath (SpecQuery)                           *)
(***************************************************************************)
\* a distance query is called in this step
DistanceCalled ==
  /\ qres = NoQuery /\ qres' # NoQuery
  /\ qres'.op \in {"getDistance", "getDistanceBetween"}
  /\ ~validatePubkeyThrows(qres'.from) /\ ~validatePubkeyThrows(qres'.target)

\* the search that the called query runs
Traversal ==
  search(Failing(storage, qres'.serves), normalizePubkey(qres'.from),
         normalizePubkey(qres'.target), qres'.maxHops)

\* the traversal ends after at most maxHops iterations of its loop
TraversalBounded ==
  [][DistanceCalled => Traversal.rounds <= qres'.maxHops]_vars

\* C36: the traversal of findShortestPath ends after at most maxHops
\* iterations of its loop and reads the follow list of no identity twice
C36_TraversalReadsOnce ==
  [][DistanceCalled =>
       /\ Traversal.rounds <= qres'.maxHops
       /\ NoDuplicate(Traversal.readOf)]_vars

(***************************************************************************)
(* getDetails read by read, while a sync writes (SpecConcurrent)           *)
(***************************************************************************)
\* r follows a and b, a follows the target x, and b reaches x through t
ConcurrentUpstream(aList) ==
  [p \in Ids |-> CASE p = "r" -> Event("r", 1, PTags(<<"a", "b">>))
                   [] p = "a" -> Event("a", 1, PTags(aList))
                   [] p = "b" -> Event("b", 1, PTags(<<"t">>))
                   [] p = "t" -> Event("t", 1, PTags(<<"x">>))
                   [] p = "x" -> Event("x", 1, PTags(<<"r">>))]

ConcurrentUpstreams == {ConcurrentUpstream(<<"x">>), ConcurrentUpstream(<<>>)}

InitConcurrent ==
  /\ InitCommon
  /\ storage = EmptyStorage
  /\ upstream \in ConcurrentUpstreams

\* getDetails up to its first await: validatePubkey, then findShortestPath
\* up to the first getFollows
DetailsStart(target, maxHops) ==
  /\ qres = NoQuery
  /\ LET to == normalizePubkey(target)
         call == [op |-> "getDetails", target |-> target, maxHops |-> maxHops,
                  to |-> to, pc |-> "search", currentLayer |-> <<myPubkey>>,
                  rest |-> <<myPubkey>>, distance |-> 1,
                  acc |-> [visited |-> {myPubkey}, nextLayer |-> <<>>,
                           foundInLayer |-> FALSE, pathCount |-> 0,
                           bridges |-> <<>>, reads |-> <<>>, failed |-> FALSE],
                  found |-> Null, out |-> Null]
     IN qres' = IF validatePubkeyThrows(target)
                THEN [call EXCEPT !.pc = "done",
                                  !.out = Throw("ValidationError")]
                ELSE IF to = myPubkey
                THEN [call EXCEPT !.pc = "mutual",
                                  !.found = [distance |-> 0, paths |-> 1,
                                             bridges |-> <<>>]]
                ELSE IF ~(0 < maxHops) THEN [call EXCEPT !.pc = "done"]
                ELSE call
  /\ UNCHANGED <<storage, poolConnected, sy, syncLog, now, upstream, relayVars, wotVars>>

\* one "await this.getFollows(pubkey)" of the search and the code up to the
\* next await
DetailsRead ==
  /\ qres.op = "getDetails" /\ qres.pc = "search"
  /\ LET acc == VisitLayer(Failing(storage, Unlimited), qres.acc,
                           <<Head(qres.rest)>>, qres.to, qres.distance,
                           qres.currentLayer)
         rest == Tail(qres.rest)
     IN qres' =
          IF rest # <<>> THEN [qres EXCEPT !.acc = acc, !.rest = rest]
          ELSE IF acc.foundInLayer
          THEN [qres EXCEPT !.pc = "mutual", !.acc = acc, !.rest = <<>>,
                            !.found = [distance |-> qres.distance,
                                       paths |-> acc.pathCount,
                                       bridges |-> acc.bridges]]
          ELSE IF Len(acc.nextLayer) > 0 /\ qres.distance < qres.maxHops
          THEN [qres EXCEPT !.acc = [acc EXCEPT !.nextLayer = <<>>],
                            !.currentLayer = acc.nextLayer,
                            !.rest = acc.nextLayer,
                            !.distance = @ + 1]
          ELSE [qres EXCEPT !.pc = "done", !.acc = acc, !.rest = <<>>]
  /\ UNCHANGED <<storage, poolConnected, sy, syncLog, now, upstream, relayVars, wotVars>>

\* "await this.doesFollow(normalizedTarget, this.myPubkey)" and the return
DetailsMutual ==
  /\ qres.op = "getDetails" /\ qres.pc = "mutual"
  /\ qres' = [qres EXCEPT
                !.pc = "done",
                !.out = [hops |-> qres.found.distance,
                         paths |-> qres.found.paths,
                         bridges |-> qres.found.bridges,
                         mutual |-> doesFollow(storage, qres.to, myPubkey)]]
  /\ UNCHANGED <<storage, poolConnected, sy, syncLog, now, upstream, relayVars, wotVars>>

\* the caller has received the result
DetailsReturn ==
  /\ qres.op = "getDetails" /\ qres.pc = "done"
  /\ qres' = NoQuery
  /\ UNCHANGED <<storage, poolConnected, sy, syncLog, now, upstream, relayVars, wotVars>>

ConcurrentTargets == {"x", "t", "r", "zz"}

\* one sync({depth: MaxDepth}) whose relays all answer, and getDetails
\* calls whose reads interleave with the batches it persists
NextConcurrent ==
  \/ Len(syncLog) < 1 /\ SyncStart(MaxDepth)
  \/ SyncRound
  \/ SyncBatch(AllAnswer, Unlimited)
  \/ SyncFinish(Unlimited)
  \/ \E target \in ConcurrentTargets, maxHops \in {1, MaxHopsBound} :
       DetailsStart(target, maxHops)
  \/ DetailsRead
  \/ DetailsMutual
  \/ DetailsReturn

SpecConcurrent == InitConcurrent /\ [][NextConcurrent]_vars

\* the storage as it was when the sync had made its first k writes (the
\* sync started on an empty storage and writes each key once)
SnapshotAt(k) ==
  [key \in DOMAIN storage |->
     IF \E i \in (k + 1)..Len(sy.written) : key = FollowsKey(sy.written[i])
     THEN Absent ELSE storage[key]]

\* the snapshots that have existed since the sync started
Existed == {SnapshotAt(k) : k \in 0..Len(sy.written)}

\* a getDetails call has its result while the sync is still in progress
DetailsDone == InSync /\ qres.op = "getDetails" /\ qres.pc = "done"

\* C35: the result of a getDetails call whose reads interleave with the
\* writes of a sync is the result getDetails gives on one of the snapshots
\* that existed during the sync
C35_ResultOfSomeSnapshot ==
  DetailsDone =>
    \E snapshot \in Existed :
      getDetails(snapshot, qres.target, qres.maxHops) = qres.out

\* the hop count of such a result is the distance in one of the snapshots
HopsOfSomeSnapshot ==
  (DetailsDone /\ qres.out # Null /\ "hops" \in DOMAIN qres.out) =>
    \E snapshot \in Existed :
      getDistance(snapshot, qres.target, qres.maxHops) = Num(qres.out.hops)

(***************************************************************************)
(* The socket a RelayConnection holds (SpecConnect)                        *)
(***************************************************************************)
\* C38: a socket that has opened and was neither closed by close() nor
\* closed by the network is the socket the connection holds, and a socket
\* that is still connecting is the one the connection and its pending
\* promise refer to: the events of earlier sockets discard neither
C38_HoldsCurrentSocket ==
  LET c == relay[DirectRelay]
  IN \A s \in 1..Len(c.sockets) :
       /\ c.sockets[s].readyState = "OPEN" => c.ws = s
       /\ c.sockets[s].readyState = "CONNECTING" =>
            c.ws = s /\ c.connectPromise = s

(***************************************************************************)
(* The React hooks useWoT, useIsInWoT, useTrustScore and useBatchWoT: the  *)
(* four share one fetchData / useEffect / refetch pattern (SpecHooks)      *)
(***************************************************************************)
\* the hook as useState and useRef initialise it, for the props of the
\* first render
NewHook(pubkey, skip) ==
  [pubkey |-> pubkey, skip |-> skip, fetchIdRef |-> 0, data |-> Null,
   error |-> Null, loading |-> TRUE, pending |-> {}]

\* fetchData up to its await; the context provides a WoT instance
fetchData(h) ==
  IF h.pubkey = "" \/ h.skip THEN [h EXCEPT !.loading = FALSE]
  ELSE LET fetchId == h.fetchIdRef + 1
       IN [h EXCEPT !.fetchIdRef = fetchId,
                    !.loading = TRUE,
                    !.error = Null,
                    !.pending = @ \cup {[fetchId |-> fetchId,
                                          pubkey |-> h.pubkey]}]

\* "useEffect(() => { if (isReady && !skip) fetchData(); }, ...)" with a
\* ready context
useEffect(h) == IF ~h.skip THEN fetchData(h) ELSE h

\* fetchData after its await: the try block or the catch block
fetchSettled(h, f, outcome) ==
  LET rest == [h EXCEPT !.pending = @ \ {f}]
  IN IF f.fetchId # h.fetchIdRef THEN rest
     ELSE IF outcome = "ok"
     THEN [rest EXCEPT !.data = [pubkey |-> f.pubkey, fetchId |-> f.fetchId],
                       !.loading = FALSE]
     ELSE [rest EXCEPT !.error = [fetchId |-> f.fetchId],
                       !.loading = FALSE]

\* pubkeys a component passes; "" is the empty string of a missing pubkey
HookPubkeys == {"a", "b", ""}

InitHooks ==
  /\ storage = EmptyStorage
  /\ upstream = NoUpstream
  /\ poolConnected = FALSE
  /\ sy = Idle
  /\ syncLog = <<>>
  /\ now = 1
  /\ qres = NoQuery
  /\ relay = [r \in Relays |-> NewRelayConnection]
  /\ poolCalls = <<>>
  /\ merged = NoMerge
  /\ wot = NoWoT
  /\ window = Null
  /\ \E pubkey \in HookPubkeys, skip \in BOOLEAN :
       hook = useEffect(NewHook(pubkey, skip))

\* the component renders with other props: fetchData is a new callback and
\* the effect runs again
Rerender(pubkey, skip) ==
  /\ hook.fetchIdRef < MaxCalls
  /\ <<pubkey, skip>> # <<hook.pubkey, hook.skip>>
  /\ hook' = useEffect([hook EXCEPT !.pubkey = pubkey, !.skip = skip])
  /\ UNCHANGED <<storage, poolConnected, sy, syncLog, now, upstream, qres, relayVars, wot, window>>

\* the component calls refetch()
Refetch ==
  /\ hook.fetchIdRef < MaxCalls
  /\ hook' = fetchData(hook)
  /\ UNCHANGED <<storage, poolConnected, sy, syncLog, now, upstream, qres, relayVars, wot, window>>

\* the query of a fetch in flight resolves or rejects
FetchSettles(f, outcome) ==
  /\ f \in hook.pending
  /\ hook' = fetchSettled(hook, f, outcome)
  /\ UNCHANGED <<storage, poolConnected, sy, syncLog, now, upstream, qres, relayVars, wot, window>>

\* the fetches a hook can have started
HookFetches ==
  {[fetchId |-> i, pubkey |-> p] : i \in 1..MaxCalls, p \in HookPubkeys}

NextHooks ==
  \/ \E pubkey \in HookPubkeys, skip \in BOOLEAN : Rerender(pubkey, skip)
  \/ Refetch
  \/ \E f \in HookFetches, outcome \in {"ok", "error"} :
       FetchSettles(f, outcome)

SpecHooks == InitHooks /\ [][NextHooks]_vars

\* the step changes what the hook returns
HookStateChanges ==
  \/ hook'.data # hook.data
  \/ hook'.error # hook.error
  \/ hook'.loading # hook.loading

\* C39: the response of a fetch changes the data, error or loading state of
\* the hook only if that fetch is the one started last and the hook has
\* since been switched neither to skip nor to another pubkey
C39_OnlyLatestFetchUpdates ==
  [][\A f \in hook.pending \ hook'.pending :
       HookStateChanges =>
         /\ f.fetchId = hook.fetchIdRef
         /\ ~hook.skip
         /\ f.pubkey = hook.pubkey]_vars

\* the same for overlapping fetches alone: the response of a fetch that is
\* not the one started last changes nothing
OverlappingFetchesOrdered ==
  [][\A f \in hook.pending \ hook'.pending :
       HookStateChanges => f.fetchId = hook.fetchIdRef]_vars

(***************************************************************************)
(* WoT.filterByWoT (SpecFilter)                                            *)
(***************************************************************************)
Filtered == qres # NoQuery /\ qres.op = "WoT.filterByWoT"

\* no pubkey is in effect: no extension answered and none is configured
NoPubkeyInEffect ==
  ~qres.present /\ wot.extensionPubkey = Null /\ wot.fallbackPubkey = Null

\* C40: filterByWoT raises no ValidationError because of what its input
\* list holds (it raises one only when no pubkey is in effect), and without
\* the extension it resolves with well-formed pubkeys of the list
C40_FilterNeverInvalid ==
  Filtered =>
    /\ qres.out = Throw("ValidationError") => NoPubkeyInEffect
    /\ "list" \in DOMAIN qres.out =>
         Range(qres.out.list) \subseteq Range(WellFormed(qres.target))

\* filterByWoT resolves with well-formed pubkeys of its list whenever the
\* list holds one or is empty
FilterOfWellFormed ==
  (Filtered /\ (qres.target = <<>> \/ WellFormed(qres.target) # <<>>)) =>
    /\ qres.out = Throw("ValidationError") => NoPubkeyInEffect
    /\ "list" \in DOMAIN qres.out =>
         Range(qres.out.list) \subseteq Range(WellFormed(qres.target))

====
